---- MODULE Spec2Model ----
(***************************************************************************)
(* Model of the persistence facade of the SAP Migration Control Center     *)
(* (class StorageManager): two local backends, localStorage (key-value)    *)
(* and IndexedDB (indexed stores), whole-collection load/save, and the     *)
(* CRUD / export / import / clear-all operations layered on top.           *)
(*                                                                         *)
(* Every facade method is an async function.  A call is a frame with a    *)
(* program position (pc); each await is a suspension point.  IndexedDB     *)
(* transactions on one store run one at a time in creation order (txq).    *)
(***************************************************************************)
EXTENDS Integers, Sequences, FiniteSets, TLC

(* ---------------------------- bounds ----------------------------------- *)
MaxId  == 2      \* record ids are 1..MaxId
MaxLen == 2      \* longest collection found in storage at page load

(* --------------------------- resources --------------------------------- *)
Coll   == {"tasks", "objects", "requests"}
Single == {"profile", "settings"}
Res    == Single \cup Coll
\* order in which exportData reads and importData writes the resources
ResSeq == <<"profile", "settings", "tasks", "objects", "requests">>
\* order in which clearAllData clears the indexed stores
StoreSeq == <<"tasks", "objects", "requests">>
\* the localStorage keys of the application: the five resources and the
\* date of the last backup ('sap_migration_last_backup')
Keys == Res \cup {"lastBackup"}
\* the keys clearAllData removes: Object.values(this.keys)
ClearedKeys == Res

(* ----------------------------- records --------------------------------- *)
\* A record has an id, one data field (st) and an optional field (ex) that
\* is either missing ("n") or present with the value undefined ("u"), as
\* criadoEm is when an edited record has none.
Ids  == 1..MaxId
Sts  == {"a", "b"}
Exs  == {"n", "u"}
Recs == [id : Ids, st : Sts, ex : Exs]

\* values of the singleton resources: the default object and one other
ProfileDefault  == "profile0"
SettingsDefault == "settings0"
SingleVals(r) == IF r = "profile" THEN {ProfileDefault, "profile1"}
                 ELSE {SettingsDefault, "settings1"}

(* ------------------------------ JSON ----------------------------------- *)
\* JSON.parse(JSON.stringify(x)): a property whose value is undefined is
\* dropped; strings, numbers and arrays come back unchanged.
JsonRec(rec) == IF "ex" \in DOMAIN rec THEN [rec EXCEPT !.ex = "n"] ELSE rec
JsonList(s)  == [i \in 1..Len(s) |-> JsonRec(s[i])]
Json(r, v)   == IF r \in Coll THEN JsonList(v) ELSE v

(* ------------------- entries (storage / document) ---------------------- *)
\* A localStorage entry is absent, unparseable text, or the text of a value.
\* A key of an import document is missing, present with a falsy value
\* (null, 0, ""), or present with a value.
Zero(r)    == IF r \in Coll THEN << >> ELSE ""
Absent(r)  == [k |-> "absent",  v |-> Zero(r)]
Corrupt(r) == [k |-> "corrupt", v |-> Zero(r)]
Falsy(r)   == [k |-> "falsy",   v |-> Zero(r)]
Val(v)     == [k |-> "val",     v |-> v]

getDefaultData(r) ==
    CASE r = "profile"  -> ProfileDefault
      [] r = "settings" -> SettingsDefault
      [] OTHER          -> << >>

\* loadData, the localStorage part: absent entry or parse error -> default
LoadFromLS(r, entry) ==
    IF entry.k = "val" THEN entry.v ELSE getDefaultData(r)

\* a load that takes the indexed store even when it is empty
LoadResult_IdbAlways(r, usedIdb, idbData, entry) ==
    IF usedIdb THEN idbData ELSE LoadFromLS(r, entry)

\* a load that prefers localStorage whenever it has an entry
LoadResult_LsFirst(r, usedIdb, idbData, entry) ==
    IF entry.k = "val" THEN entry.v
    ELSE IF usedIdb /\ Len(idbData) > 0 THEN idbData ELSE getDefaultData(r)

\* loadData: the indexed store is authoritative when it was read and is
\* non-empty; otherwise localStorage.
LoadResult(r, usedIdb, idbData, entry) ==
    IF usedIdb /\ Len(idbData) > 0 THEN idbData ELSE LoadFromLS(r, entry)

(* ------------------------ collection helpers --------------------------- *)
RECURSIVE findIndex(_, _, _)
\* Array.prototype.findIndex(x => x.id === id), 1-based, 0 when not found
findIndex(s, id, i) ==
    IF i > Len(s) THEN 0
    ELSE IF s[i].id = id THEN i ELSE findIndex(s, id, i + 1)

\* an upsert that never looks for the id
Upsert_AppendOnly(s, rec) == Append(s, rec)

\* body of saveTask / saveObject / saveRequest between load and saveData
Upsert(s, rec) ==
    LET i == findIndex(s, rec.id, 1)
    IN  IF i > 0 THEN [s EXCEPT ![i] = rec] ELSE Append(s, rec)

\* a delete that splices out the first match only
FilterOut_FirstOnly(s, id) ==
    LET i == findIndex(s, id, 1)
    IN  IF i = 0 THEN s ELSE SubSeq(s, 1, i - 1) \o SubSeq(s, i + 1, Len(s))

RECURSIVE FilterOut(_, _)
\* Array.prototype.filter(x => x.id !== id)
FilterOut(s, id) ==
    IF s = << >> THEN << >>
    ELSE IF Head(s).id = id THEN FilterOut(Tail(s), id)
         ELSE <<Head(s)>> \o FilterOut(Tail(s), id)

\* Array.prototype.find(x => x.id === id); "undefined" when not found
NotFound == [id |-> 0, st |-> "undefined", ex |-> "n"]
Find(s, id) ==
    LET i == findIndex(s, id, 1) IN IF i > 0 THEN s[i] ELSE NotFound

(* --------------------------- indexed store ----------------------------- *)
RECURSIVE InsertByKey(_, _)
InsertByKey(s, rec) ==
    IF s = << >> THEN <<rec>>
    ELSE IF rec.id < Head(s).id THEN <<rec>> \o s
         ELSE <<Head(s)>> \o InsertByKey(Tail(s), rec)

\* an add that never finds its transaction inactive
StoreAdd_AnyTx(txActive, contents, rec) ==
    IF findIndex(contents, rec.id, 1) > 0
    THEN [kind |-> "abort", contents |-> contents]
    ELSE [kind |-> "ok", contents |-> InsertByKey(contents, rec)]

\* IDBObjectStore.add through a store handle of a transaction: throws
\* TransactionInactiveError at once unless the transaction is active; on an
\* active transaction the request fails with ConstraintError when the key
\* exists, which aborts the transaction, and otherwise inserts in key order.
StoreAdd(txActive, contents, rec) ==
    IF ~txActive THEN [kind |-> "throw", contents |-> contents]
    ELSE IF findIndex(contents, rec.id, 1) > 0
         THEN [kind |-> "abort", contents |-> contents]
         ELSE [kind |-> "ok", contents |-> InsertByKey(contents, rec)]

RECURSIVE AddLoop(_, _, _)
\* the for-loop of saveData: add every item, stop at the first failure
AddLoop(txActive, contents, items) ==
    IF items = << >> THEN [kind |-> "ok", contents |-> contents]
    ELSE LET a == StoreAdd(txActive, contents, Head(items))
         IN  IF a.kind = "ok" THEN AddLoop(txActive, a.contents, Tail(items))
             ELSE a

\* an aborted transaction leaves the store as it found it
AddAll(txActive, contents, items) ==
    LET a == AddLoop(txActive, contents, items)
    IN  IF a.kind = "ok" THEN a ELSE [kind |-> a.kind, contents |-> contents]


(* -------------------------- generateTaskId ----------------------------- *)
\* A task id is a prefix followed by characters.  Numbers are doubles:
\* integers are exact up to 2^53 = 9007199254740992, which does not fit the
\* integers of the checker, so a number is written hi * 2^53 + lo, and the
\* 16-digit numerals of 2^53 - 1 and 2^53 are single symbols of width 16.
DigitChars == <<"0", "1", "2", "3", "4", "5", "6", "7", "8", "9">>
Numeral53   == "9007199254740992"
Numeral53m1 == "9007199254740991"
IsDigit(ch)  == \E d \in 1..10 : DigitChars[d] = ch
DigitVal(ch) == (CHOOSE d \in 1..10 : DigitChars[d] = ch) - 1
Width(ch)    == IF ch \in {Numeral53, Numeral53m1} THEN 16 ELSE 1
NaN          == [hi |-> -1, lo |-> 0]
isNaN(n)     == n.hi < 0

RECURSIVE LeadingDigits(_, _)
\* value of the digits s starts with, continuing from acc
LeadingDigits(s, acc) ==
    IF s = << >> \/ ~IsDigit(Head(s)) THEN acc
    ELSE LeadingDigits(Tail(s), 10 * acc + DigitVal(Head(s)))

\* parseInt(string): the integer the string starts with, NaN when it
\* starts with none
parseInt(s) ==
    IF s = << >> THEN NaN
    ELSE IF Head(s) = Numeral53 THEN [hi |-> 1, lo |-> 0]
    ELSE IF Head(s) = Numeral53m1 THEN [hi |-> 1, lo |-> -1]
    ELSE IF ~IsDigit(Head(s)) THEN NaN
    ELSE [hi |-> 0, lo |-> LeadingDigits(s, 0)]

\* Math.max of two numbers
MathMax(a, b) ==
    IF a.hi > b.hi \/ (a.hi = b.hi /\ a.lo >= b.lo) THEN a ELSE b

\* n + 1 in double arithmetic: 2^53 + 1 is not a double and rounds to 2^53
PlusOne(n) ==
    IF n.hi = 1 /\ n.lo >= 0 THEN n ELSE [hi |-> n.hi, lo |-> n.lo + 1]

RECURSIVE Decimal(_)
\* the decimal digits of a natural number
Decimal(k) ==
    IF k < 10 THEN <<DigitChars[k + 1]>>
    ELSE Append(Decimal(k \div 10), DigitChars[(k % 10) + 1])

\* String(number)
String(n) ==
    IF n.hi = 1 /\ n.lo = 0 THEN <<Numeral53>>
    ELSE IF n.hi = 1 /\ n.lo = -1 THEN <<Numeral53m1>>
    ELSE Decimal(n.lo)

RECURSIVE CharLen(_)
CharLen(s) == IF s = << >> THEN 0 ELSE Width(Head(s)) + CharLen(Tail(s))

RECURSIVE padStart(_, _)
\* String.prototype.padStart(n, '0')
padStart(s, n) == IF CharLen(s) >= n THEN s ELSE padStart(<<"0">> \o s, n)

RECURSIVE MaxTaskNum(_, _)
\* the reduce of generateTaskId: the largest number read from the ids that
\* start with 'TSK', starting from max
MaxTaskNum(tasks, max) ==
    IF tasks = << >> THEN max
    ELSE LET id  == Head(tasks).id
             num == parseInt(id.suf)
         IN  MaxTaskNum(Tail(tasks),
                 IF id.pre = "TSK"
                 THEN MathMax(max, IF isNaN(num) THEN [hi |-> 0, lo |-> 0]
                                   ELSE num)
                 ELSE max)

\* generateTaskId, after getTasks has returned
generateTaskId(tasks) ==
    [pre |-> "TSK",
     suf |-> padStart(String(PlusOne(MaxTaskNum(tasks, [hi |-> 0, lo |-> 0]))),
                      3)]

NoId == [pre |-> "", suf |-> << >>]

(* ------------------------------ search --------------------------------- *)
\* Text is a sequence of letters.  A property that is not there reads as
\* undefined, written as a text of one symbol that is no letter.
Undef == <<"undefined">>

Lower(ch) == CASE ch = "A" -> "a" [] ch = "B" -> "b" [] OTHER -> ch
\* String.prototype.toLowerCase
toLowerCase(s) == [i \in 1..Len(s) |-> Lower(s[i])]
\* String.prototype.includes
includes(s, q) ==
    \E i \in 0..(Len(s) - Len(q)) : SubSeq(s, i + 1, i + Len(q)) = q

\* the fields searchTasks / searchObjects read
Title(r, rec) == IF r = "tasks" THEN rec.titulo ELSE rec.nome
Notes(r, rec) == IF r = "tasks" THEN rec.descricao ELSE rec.notas

\* a callback that reads the title whatever the query is
QueryThrows_Always(r, rec, query) == Title(r, rec) = Undef

\* "rec.titulo.toLowerCase()" on a record without titulo is a TypeError;
\* it is reached only when the query is not empty
QueryThrows(r, rec, query) == query # << >> /\ Title(r, rec) = Undef

\* a query match on the title alone
matchesQuery_TitleOnly(r, rec, query) ==
    \/ query = << >>
    \/ includes(toLowerCase(Title(r, rec)), toLowerCase(query))

matchesQuery(r, rec, query) ==
    \/ query = << >>
    \/ includes(toLowerCase(Title(r, rec)), toLowerCase(query))
    \/ includes(toLowerCase(rec.id), toLowerCase(query))
    \/ /\ Notes(r, rec) # Undef /\ Notes(r, rec) # << >>
       /\ includes(toLowerCase(Notes(r, rec)), toLowerCase(query))

\* filters that are never applied
matchesFilters_None(r, rec, filters) == TRUE

\* a filter whose value is falsy ('' or undefined) is not applied
matchesFilters(r, rec, filters) ==
    IF r = "tasks"
    THEN /\ filters.status = "" \/ rec.status = filters.status
         /\ filters.priority = "" \/ rec.prioridade = filters.priority
         /\ filters.category = "" \/ rec.categoria = filters.category
    ELSE /\ filters.type = "" \/ rec.tipo = filters.type
         /\ filters.status = "" \/ rec.status = filters.status

RECURSIVE filter(_, _, _, _)
\* Array.prototype.filter with the callback of searchTasks / searchObjects
filter(r, s, query, filters) ==
    IF s = << >> THEN << >>
    ELSE IF matchesQuery(r, Head(s), query)
            /\ matchesFilters(r, Head(s), filters)
         THEN <<Head(s)>> \o filter(r, Tail(s), query, filters)
         ELSE filter(r, Tail(s), query, filters)

\* the callback throws on some record
SearchThrows(r, s, query) ==
    \E i \in 1..Len(s) : QueryThrows(r, s[i], query)

NoFilters == [status |-> "", priority |-> "", category |-> "", type |-> ""]

(* ------------------------------ state ---------------------------------- *)
VARIABLES
    ls,        \* localStorage: resource -> entry
    idb,       \* IndexedDB object stores: collection -> records in key order
    db,        \* this.db: "opening" (null, open request pending),
               \*          "open" (set by request.onsuccess), "failed"
    txq,       \* per store, the transactions created and not yet run
    calls,     \* call slot -> frame of the facade call made in that slot
    events,    \* CustomEvents dispatched on document, in order
    file,      \* the document produced by the last exportData
    quotaErr,  \* environment: localStorage.setItem throws
    idbErr,    \* environment: IndexedDB requests fail
    ui         \* the fields of the view controllers

vars == <<ls, idb, db, txq, calls, events, file, quotaErr, idbErr, ui>>

\* the values of the form fields read by the last submit: which form, the
\* id, and whether the two required fields were filled
NoForm == [ctl |-> "none", id |-> 0, first |-> FALSE, second |-> FALSE]

\* the debounced handler of the search box after bindFilterEvents: the
\* clock (ms), the active timers of the window (by the time they are due),
\* the closure variable timeout (0: undefined), and what has been observed:
\* whether and when the last input event was handled, how many events the
\* current burst has, how often applyFilters was called since the last
\* event and since the burst began, when it was last called, and whether a
\* burst ended without a call
NoSearch ==
    [now |-> 0, timers |-> {}, timeout |-> 0, typed |-> 0, lastInput |-> 0,
     burstLen |-> 0, applied |-> 0, burstApplied |-> 0, appliedAt |-> 0,
     missed |-> FALSE]

\* the confirmation dialog of the application: whether confirmModal is
\* shown, this.confirmCallback (0: null, else the id its closure deletes),
\* the id of the record named in the message shown, and the id of the
\* record of the last dialog that was cancelled or closed
NoConfirm == [open |-> FALSE, callback |-> 0, shown |-> 0, cancelled |-> 0]

\* the collections handed to the summary computation and what it returned
NoOut ==
    [totalTasks |-> 0, activeTasks |-> 0, completedTasks |-> 0,
     totalObjects |-> 0, convertedObjects |-> 0, progressPercentage |-> 0]
NoSummary == [tasks |-> << >>, objects |-> << >>, out |-> NoOut,
              done |-> FALSE]

\* the controllers after their constructors: nothing loaded, no record
\* being edited, no modal open, no message shown, no form submitted;
\* app.currentView is 'dashboard', no view element is marked active yet and
\* no showView is waiting for a controller
NoUi ==
    [currentObjects |-> << >>, currentEditingObject |-> 0, msg |-> "none",
     currentTasks |-> << >>, currentEditingTask |-> 0, modal |-> "none",
     form |-> NoForm,
     currentView |-> "dashboard", activeView |-> "none",
     initializing |-> {}, refreshAll |-> "none",
     search |-> NoSearch, confirm |-> NoConfirm, summary |-> NoSummary]

\* the slots calls are made in, one after the other
CallIds == {1, 2, 3}

NoDoc == [r \in Res |-> Absent(r)]

IdleFrame ==
    [op |-> "idle", pc |-> "idle", r |-> "none", rec |-> NotFound, id |-> 0,
     loaded |-> << >>, data |-> << >>, sv |-> "", tx |-> "none", k |-> 0,
     doc |-> NoDoc, found |-> NotFound, ok |-> "none", lsOk |-> FALSE,
     rejected |-> FALSE, inp |-> "none", gen |-> NoId,
     query |-> << >>, filters |-> NoFilters, result |-> << >>,
     mode |-> "none"]

Settled(f) == f.pc = "done"

\* a call may start in slot c when every earlier slot has finished
StartOK(c) ==
    /\ calls[c].op = "idle"
    /\ \A d \in CallIds : d < c => Settled(calls[d])

UsesIdb(r) == db = "open" /\ r \in Coll

(* --------------------- loadData, synchronous part ---------------------- *)
\* collection + this.db set: getFromIndexedDB opens a readonly transaction
\* and awaits getAll; otherwise localStorage is read at once.
LoadSyncFrame(f, r) ==
    IF UsesIdb(r)
    THEN [f EXCEPT !.r = r, !.pc = "load_wait"]
    ELSE IF r \in Coll
         THEN [f EXCEPT !.r = r, !.pc = "loaded",
                        !.loaded = LoadFromLS(r, ls[r])]
         ELSE [f EXCEPT !.r = r, !.pc = "loaded",
                        !.sv = LoadFromLS(r, ls[r])]

LoadSyncTxq(c, r) ==
    IF UsesIdb(r)
    THEN [txq EXCEPT ![r] = Append(@, [c |-> c, kind |-> "getAll"])]
    ELSE txq

(* --------------------- saveData, synchronous part ---------------------- *)
\* localStorage.setItem(key, JSON.stringify(data)); a throw is caught
SaveSyncLs(cur, r, v) ==
    IF quotaErr THEN cur ELSE [cur EXCEPT ![r] = Val(Json(r, v))]

\* this.db set and a collection: open the readwrite transaction, then
\* clearStore opens its own transaction and places the clear request
SaveSyncTxq(c, r) ==
    IF UsesIdb(r)
    THEN [txq EXCEPT ![r] = @ \o <<[c |-> c, kind |-> "rw"],
                                   [c |-> c, kind |-> "clear"]>>]
    ELSE txq

\* at the await the transaction of saveData stops being active
SaveSyncFrame(f, r) ==
    IF UsesIdb(r)
    THEN [f EXCEPT !.r = r, !.pc = "sd_clear", !.tx = "inactive",
                   !.lsOk = ~quotaErr]
    ELSE [f EXCEPT !.r = r, !.pc = "saved", !.tx = "none",
                   !.lsOk = ~quotaErr]

TypeOK ==
    /\ db \in {"opening", "open", "failed"}
    /\ quotaErr \in BOOLEAN /\ idbErr \in BOOLEAN
    /\ \A r \in Res : ls[r].k \in {"absent", "corrupt", "val"}
    /\ \A c \in CallIds : calls[c].pc \in
          {"idle", "load_wait", "loaded", "sd_clear", "sd_complete",
           "saved", "ca_clear", "done"}


(* ------------------------------ events --------------------------------- *)
\* dispatchEvent(name, data): the payload is the frame's data at that moment
Dispatch(name, c) == Append(events, [name |-> name, c |-> c])
UpdatedEvent(r) ==
    CASE r = "tasks"    -> "tasksUpdated"
      [] r = "objects"  -> "objectsUpdated"
      [] r = "requests" -> "requestsUpdated"
      [] r = "profile"  -> "profileUpdated"
      [] OTHER          -> "settingsUpdated"

(* --------------------------- environment ------------------------------- *)
\* indexedDB.open(...).onsuccess: this.db = request.result
DBOpened ==
    /\ db = "opening"
    /\ db' = "open"
    /\ UNCHANGED <<ls, idb, txq, calls, events, file, quotaErr, idbErr, ui>>

\* indexedDB.open(...).onerror: this.db stays null
DBOpenFailed ==
    /\ db = "opening"
    /\ db' = "failed"
    /\ UNCHANGED <<ls, idb, txq, calls, events, file, quotaErr, idbErr, ui>>

\* the quota of localStorage is exhausted / available again
QuotaFault ==
    /\ quotaErr' = ~quotaErr
    /\ UNCHANGED <<ls, idb, db, txq, calls, events, file, idbErr, ui>>

\* IndexedDB requests start / stop failing
IdbFault ==
    /\ idbErr' = ~idbErr
    /\ UNCHANGED <<ls, idb, db, txq, calls, events, file, quotaErr, ui>>

\* what loadData(r) returns when it runs from this state with no other
\* call in flight
LoadNow(r) ==
    LoadResult(r, UsesIdb(r) /\ ~idbErr,
               IF r \in Coll THEN idb[r] ELSE << >>, ls[r])

(* ---------------------- collection operations -------------------------- *)
\* saveTask / saveObject / saveRequest up to the first await
CallSaveRec(c, r, rec) ==
    /\ StartOK(c)
    /\ calls' = [calls EXCEPT ![c] =
          LoadSyncFrame([IdleFrame EXCEPT !.op = "saveRec", !.rec = rec], r)]
    /\ txq' = LoadSyncTxq(c, r)
    /\ UNCHANGED <<ls, idb, db, events, file, quotaErr, idbErr, ui>>

\* saveTask / saveObject / saveRequest called while an earlier call is
\* suspended at an await
OverlapSaveRec(c, r, rec) ==
    /\ calls[c].op = "idle"
    /\ \A d \in CallIds : d < c => calls[d].op # "idle"
    /\ calls' = [calls EXCEPT ![c] =
          LoadSyncFrame([IdleFrame EXCEPT !.op = "saveRec", !.rec = rec], r)]
    /\ txq' = LoadSyncTxq(c, r)
    /\ UNCHANGED <<ls, idb, db, events, file, quotaErr, idbErr, ui>>

\* deleteTask / deleteObject up to the first await
CallDeleteRec(c, r, id) ==
    /\ StartOK(c)
    /\ calls' = [calls EXCEPT ![c] =
          LoadSyncFrame([IdleFrame EXCEPT !.op = "deleteRec", !.id = id], r)]
    /\ txq' = LoadSyncTxq(c, r)
    /\ UNCHANGED <<ls, idb, db, events, file, quotaErr, idbErr, ui>>

\* getTaskById / getObjectById up to the first await
CallGetById(c, r, id) ==
    /\ StartOK(c)
    /\ calls' = [calls EXCEPT ![c] =
          LoadSyncFrame([IdleFrame EXCEPT !.op = "getById", !.id = id], r)]
    /\ txq' = LoadSyncTxq(c, r)
    /\ UNCHANGED <<ls, idb, db, events, file, quotaErr, idbErr, ui>>

\* the write half of an upsert or a delete: change the loaded array, then
\* saveData up to its first await
WriteBack(c, new) ==
    LET f == calls[c]
    IN  /\ ls' = SaveSyncLs(ls, f.r, new)
        /\ txq' = SaveSyncTxq(c, f.r)
        /\ calls' = [calls EXCEPT ![c] =
              SaveSyncFrame([f EXCEPT !.data = new], f.r)]
        /\ UNCHANGED <<idb, db, events, file, quotaErr, idbErr, ui>>

\* an upsert that reads the collection again when it writes
SaveRecWrite_Fresh(c) ==
    /\ calls[c].op = "saveRec" /\ calls[c].pc = "loaded"
    /\ WriteBack(c, Upsert(LoadNow(calls[c].r), calls[c].rec))

SaveRecWrite(c) ==
    /\ calls[c].op = "saveRec" /\ calls[c].pc = "loaded"
    /\ WriteBack(c, Upsert(calls[c].loaded, calls[c].rec))

DeleteRecWrite(c) ==
    /\ calls[c].op = "deleteRec" /\ calls[c].pc = "loaded"
    /\ WriteBack(c, FilterOut(calls[c].loaded, calls[c].id))

GetByIdReturn(c) ==
    /\ calls[c].op = "getById" /\ calls[c].pc = "loaded"
    /\ calls' = [calls EXCEPT ![c].found = Find(calls[c].loaded, calls[c].id),
                              ![c].pc = "done"]
    /\ UNCHANGED <<ls, idb, db, txq, events, file, quotaErr, idbErr, ui>>

\* after "await this.saveData(...)": dispatch '<resource>Updated', return
UpdateDispatch(c) ==
    /\ calls[c].op \in {"saveRec", "deleteRec", "saveProfile"}
    /\ calls[c].pc = "saved"
    /\ events' = Dispatch(UpdatedEvent(calls[c].r), c)
    /\ calls' = [calls EXCEPT ![c].pc = "done"]
    /\ UNCHANGED <<ls, idb, db, txq, file, quotaErr, idbErr, ui>>

\* saveProfile(profile): saveData('profile', profile) up to its await
CallSaveProfile(c, v) ==
    /\ StartOK(c)
    /\ ls' = SaveSyncLs(ls, "profile", v)
    /\ calls' = [calls EXCEPT ![c] =
          SaveSyncFrame([IdleFrame EXCEPT !.op = "saveProfile", !.sv = v],
                        "profile")]
    /\ UNCHANGED <<idb, db, txq, events, file, quotaErr, idbErr, ui>>

\* loadData(r) called on its own, up to its first await
CallLoad(c, r) ==
    /\ StartOK(c)
    /\ calls' = [calls EXCEPT ![c] =
          LoadSyncFrame([IdleFrame EXCEPT !.op = "load"], r)]
    /\ txq' = LoadSyncTxq(c, r)
    /\ UNCHANGED <<ls, idb, db, events, file, quotaErr, idbErr, ui>>

LoadReturn(c) ==
    /\ calls[c].op = "load" /\ calls[c].pc = "loaded"
    /\ calls' = [calls EXCEPT ![c].pc = "done"]
    /\ UNCHANGED <<ls, idb, db, txq, events, file, quotaErr, idbErr, ui>>

\* generateTaskId up to its await of getTasks
CallGenerateTaskId(c) ==
    /\ StartOK(c)
    /\ calls' = [calls EXCEPT ![c] =
          LoadSyncFrame([IdleFrame EXCEPT !.op = "genId"], "tasks")]
    /\ txq' = LoadSyncTxq(c, "tasks")
    /\ UNCHANGED <<ls, idb, db, events, file, quotaErr, idbErr, ui>>

GenerateTaskIdReturn(c) ==
    /\ calls[c].op = "genId" /\ calls[c].pc = "loaded"
    /\ calls' = [calls EXCEPT ![c].gen = generateTaskId(calls[c].loaded),
                              ![c].pc = "done"]
    /\ UNCHANGED <<ls, idb, db, txq, events, file, quotaErr, idbErr, ui>>

\* searchTasks / searchObjects up to the await of getTasks / getObjects
CallSearch(c, r, query, filters) ==
    /\ StartOK(c)
    /\ calls' = [calls EXCEPT ![c] =
          LoadSyncFrame([IdleFrame EXCEPT !.op = "search", !.query = query,
                                          !.filters = filters], r)]
    /\ txq' = LoadSyncTxq(c, r)
    /\ UNCHANGED <<ls, idb, db, events, file, quotaErr, idbErr, ui>>

\* the filter runs; an exception in the callback rejects the promise
SearchReturn(c) ==
    /\ calls[c].op = "search" /\ calls[c].pc = "loaded"
    /\ LET f == calls[c]
       IN  calls' = [calls EXCEPT ![c] =
              IF SearchThrows(f.r, f.loaded, f.query)
              THEN [f EXCEPT !.pc = "done", !.rejected = TRUE]
              ELSE [f EXCEPT !.pc = "done",
                       !.result = filter(f.r, f.loaded, f.query, f.filters)]]
    /\ UNCHANGED <<ls, idb, db, txq, events, file, quotaErr, idbErr, ui>>

(* ------------------------ IndexedDB event loop ------------------------- *)
\* The readwrite transaction saveData opened has no request placed on it:
\* it commits as soon as it is its turn, and its complete event fires.
TxCommit(r) ==
    /\ txq[r] # << >> /\ Head(txq[r]).kind = "rw"
    /\ LET c == Head(txq[r]).c
       IN  calls' = [calls EXCEPT ![c].tx = "finished",
                        ![c].pc = IF @ = "sd_complete" THEN "saved" ELSE @]
    /\ txq' = [txq EXCEPT ![r] = Tail(@)]
    /\ UNCHANGED <<ls, idb, db, events, file, quotaErr, idbErr, ui>>

\* getFromIndexedDB's getAll request completes; loadData goes on to
\* localStorage when the store was empty or the request failed.
GetAllRun(r) ==
    /\ txq[r] # << >> /\ Head(txq[r]).kind = "getAll"
    /\ LET c == Head(txq[r]).c
       IN  calls' = [calls EXCEPT ![c].pc = "loaded",
                        ![c].loaded = LoadResult(r, ~idbErr, idb[r], ls[r])]
    /\ txq' = [txq EXCEPT ![r] = Tail(@)]
    /\ UNCHANGED <<ls, idb, db, events, file, quotaErr, idbErr, ui>>


\* clearStore's clear request completes.  Inside saveData the code then
\* adds every item through the transaction it opened before the await, and
\* returns a promise settled by that transaction's complete / error event.
\* Inside clearAllData the next store is cleared.
ClearRun(r) ==
    /\ txq[r] # << >> /\ Head(txq[r]).kind = "clear"
    /\ LET c    == Head(txq[r]).c
           f    == calls[c]
           rest == [txq EXCEPT ![r] = Tail(@)]
           adds == AddAll(f.tx = "active", << >>, f.data)
       IN  IF f.pc = "sd_clear"
           THEN /\ idb' = IF idbErr THEN idb ELSE [idb EXCEPT ![r] = adds.contents]
                /\ calls' = [calls EXCEPT ![c] =
                      IF idbErr \/ adds.kind = "throw"
                      THEN \* caught and logged, saveData resolves
                           [f EXCEPT !.pc = "saved"]
                      ELSE IF adds.kind = "ok"
                      THEN \* the returned promise waits for oncomplete
                           [f EXCEPT !.pc = "sd_complete"]
                      ELSE \* transaction.onerror rejects the returned
                           \* promise; only importData catches it
                           [f EXCEPT !.pc = "done", !.rejected = TRUE,
                                     !.ok = IF f.op = "import" THEN "failure"
                                            ELSE f.ok]]
                /\ txq' = rest
                /\ UNCHANGED events
           ELSE \* clearAllData
                /\ idb' = IF idbErr THEN idb ELSE [idb EXCEPT ![r] = << >>]
                /\ IF idbErr
                   THEN /\ calls' = [calls EXCEPT ![c].pc = "done",
                                                  ![c].ok = "failure"]
                        /\ txq' = rest
                        /\ UNCHANGED events
                   ELSE IF f.k < Len(StoreSeq)
                   THEN /\ calls' = [calls EXCEPT ![c].k = f.k + 1]
                        /\ txq' = [rest EXCEPT ![StoreSeq[f.k + 1]] =
                              Append(@, [c |-> c, kind |-> "clear"])]
                        /\ UNCHANGED events
                   ELSE /\ calls' = [calls EXCEPT ![c].pc = "done",
                                                  ![c].ok = "success"]
                        /\ txq' = rest
                        /\ events' = Dispatch("dataCleared", c)
    /\ UNCHANGED <<ls, db, file, quotaErr, idbErr, ui>>

(* ------------------------- export / import ----------------------------- *)
\* JSON.stringify of the export document
JsonDoc(d) == [r \in Res |-> [k |-> d[r].k, v |-> Json(r, d[r].v)]]

CallExport(c) ==
    /\ StartOK(c)
    /\ calls' = [calls EXCEPT ![c] =
          LoadSyncFrame([IdleFrame EXCEPT !.op = "export", !.k = 1], ResSeq[1])]
    /\ txq' = LoadSyncTxq(c, ResSeq[1])
    /\ UNCHANGED <<ls, idb, db, events, file, quotaErr, idbErr, ui>>

\* an export that also stamps the date of the last backup
ExportNext_Stamps(c) ==
    /\ calls[c].op = "export" /\ calls[c].pc = "loaded"
    /\ ls' = [ls EXCEPT !["lastBackup"] = Val("date")]
    /\ calls' = [calls EXCEPT ![c].pc = "done"]
    /\ UNCHANGED <<idb, db, txq, events, file, quotaErr, idbErr, ui>>

\* one getter of exportData has returned: store it, start the next one, or
\* stringify the document after the last
ExportNext(c) ==
    /\ calls[c].op = "export" /\ calls[c].pc = "loaded"
    /\ LET f    == calls[c]
           val  == IF f.r \in Coll THEN f.loaded ELSE f.sv
           doc2 == [f.doc EXCEPT ![f.r] = Val(val)]
       IN  IF f.k < Len(ResSeq)
           THEN /\ calls' = [calls EXCEPT ![c] =
                      LoadSyncFrame([f EXCEPT !.doc = doc2, !.k = f.k + 1],
                                    ResSeq[f.k + 1])]
                /\ txq' = LoadSyncTxq(c, ResSeq[f.k + 1])
                /\ UNCHANGED file
           ELSE /\ calls' = [calls EXCEPT ![c].doc = doc2, ![c].pc = "done"]
                /\ file' = JsonDoc(doc2)
                /\ UNCHANGED txq
    /\ UNCHANGED <<ls, idb, db, events, quotaErr, idbErr, ui>>

\* an import that saves all five resources, missing keys as empty values
NextKey_Every(doc, k0) == IF k0 <= Len(ResSeq) THEN k0 ELSE 0

\* an import that takes an empty list for a missing key
NextKey_NonEmpty(doc, k0) ==
    LET S == {j \in k0..Len(ResSeq) :
                 /\ doc[ResSeq[j]].k = "val"
                 /\ doc[ResSeq[j]].v # Zero(ResSeq[j])}
    IN  IF S = {} THEN 0 ELSE CHOOSE j \in S : \A i \in S : j <= i

\* index in ResSeq of the next key at or after k0 whose value is truthy
\* ("if (data.profile) ..."), 0 when there is none
NextKey(doc, k0) ==
    LET S == {j \in k0..Len(ResSeq) : doc[ResSeq[j]].k = "val"}
    IN  IF S = {} THEN 0 ELSE CHOOSE j \in S : \A i \in S : j <= i

\* importData from key k0 on: saveData of the next truthy key up to its
\* await, or, after the last, dispatch dataImported and return success
ImportStep(c, f, k0) ==
    LET j == NextKey(f.doc, k0)
        r == ResSeq[j]
        v == f.doc[r].v
        g == IF r \in Coll THEN [f EXCEPT !.k = j, !.data = v]
                           ELSE [f EXCEPT !.k = j, !.sv = v]
    IN  IF j = 0
        THEN /\ calls' = [calls EXCEPT ![c] =
                   [f EXCEPT !.pc = "done", !.ok = "success"]]
             /\ events' = Dispatch("dataImported", c)
             /\ UNCHANGED <<ls, txq>>
        ELSE /\ ls' = SaveSyncLs(ls, r, v)
             /\ txq' = SaveSyncTxq(c, r)
             /\ calls' = [calls EXCEPT ![c] = SaveSyncFrame(g, r)]
             /\ UNCHANGED events

\* what the caller handed to importData: text that is not JSON, the text
\* "null", the text of another JSON value that is not an object (a number,
\* a string, a boolean, an array), or the text of an object
InputKind(text) == IF text.good THEN text.shape ELSE "unparseable"

\* an import that refuses every value that is not an object
ImportThrows_NonObject(text) == ~text.good \/ text.shape # "object"

\* the try block throws before the first save: JSON.parse on text that is
\* not JSON, and "data.profile" on null; on any other value a property
\* that is not there reads as undefined
ImportThrows(text) == ~text.good \/ text.shape = "null"

\* importData(jsonData) up to its first await
CallImport(c, text) ==
    /\ StartOK(c)
    /\ IF ImportThrows(text)
       THEN /\ calls' = [calls EXCEPT ![c] =
                  [IdleFrame EXCEPT !.op = "import", !.pc = "done",
                                    !.ok = "failure",
                                    !.inp = InputKind(text)]]
            /\ UNCHANGED <<ls, txq, events>>
       ELSE ImportStep(c, [IdleFrame EXCEPT !.op = "import", !.doc = text.d,
                                            !.inp = InputKind(text)], 1)
    /\ UNCHANGED <<idb, db, file, quotaErr, idbErr, ui>>

ImportNext(c) ==
    /\ calls[c].op = "import" /\ calls[c].pc = "saved"
    /\ ImportStep(c, calls[c], calls[c].k + 1)
    /\ UNCHANGED <<idb, db, file, quotaErr, idbErr, ui>>

\* getDataSummary up to the await of getTasks
CallSummary(c) ==
    /\ StartOK(c)
    /\ calls' = [calls EXCEPT ![c] =
          LoadSyncFrame([IdleFrame EXCEPT !.op = "summary", !.k = 1],
                        StoreSeq[1])]
    /\ txq' = LoadSyncTxq(c, StoreSeq[1])
    /\ UNCHANGED <<ls, idb, db, events, file, quotaErr, idbErr, ui>>

\* getTasks / getObjects / getRequests has returned: keep the collection,
\* start the next getter, or return the summary after the last
SummaryNext(c) ==
    /\ calls[c].op = "summary" /\ calls[c].pc = "loaded"
    /\ LET f    == calls[c]
           doc2 == [f.doc EXCEPT ![f.r] = Val(f.loaded)]
       IN  IF f.k < Len(StoreSeq)
           THEN /\ calls' = [calls EXCEPT ![c] =
                      LoadSyncFrame([f EXCEPT !.doc = doc2, !.k = f.k + 1],
                                    StoreSeq[f.k + 1])]
                /\ txq' = LoadSyncTxq(c, StoreSeq[f.k + 1])
           ELSE /\ calls' = [calls EXCEPT ![c].doc = doc2, ![c].pc = "done"]
                /\ UNCHANGED txq
    /\ UNCHANGED <<ls, idb, db, events, file, quotaErr, idbErr, ui>>

\* clearAllData: remove every key, then clear the stores one by one
CallClearAll(c) ==
    /\ StartOK(c)
    /\ ls' = [r \in Keys |-> IF r \in ClearedKeys THEN Absent(r) ELSE ls[r]]
    /\ IF db = "open"
       THEN /\ calls' = [calls EXCEPT ![c] =
                  [IdleFrame EXCEPT !.op = "clearAll", !.pc = "ca_clear",
                                    !.k = 1]]
            /\ txq' = [txq EXCEPT ![StoreSeq[1]] =
                  Append(@, [c |-> c, kind |-> "clear"])]
            /\ UNCHANGED events
       ELSE /\ calls' = [calls EXCEPT ![c] =
                  [IdleFrame EXCEPT !.op = "clearAll", !.pc = "done",
                                    !.ok = "success"]]
            /\ events' = Dispatch("dataCleared", c)
            /\ UNCHANGED txq
    /\ UNCHANGED <<idb, db, file, quotaErr, idbErr, ui>>

\* setLastBackupDate(): called by the settings view after an export
SetLastBackupDate ==
    /\ ls' = [ls EXCEPT !["lastBackup"] = Val("date")]
    /\ UNCHANGED <<idb, db, txq, calls, events, file, quotaErr, idbErr, ui>>

(* ------------------------- ObjectsController --------------------------- *)
\* no continuation of an async function is ready to run: the event loop
\* takes the next user event only then
Quiet == \A c \in CallIds : calls[c].pc \notin {"loaded", "saved"}

\* a load started by a listener while the load of a showView is awaited
\* leaves the continuation of that showView in place
Reload(l, frame) ==
    IF calls[l].pc = "load_wait" THEN [frame EXCEPT !.mode = calls[l].mode]
    ELSE frame

\* showView(v) around the initialize of the controller: the view element is
\* marked active before the await, this.currentView is assigned after it
ShowViewUi(u, v, finished) ==
    [u EXCEPT !.activeView = v,
              !.currentView = IF finished THEN v ELSE @]

\* loadObjects, called by initialize when the objects view is shown and by
\* the objectsUpdated listener: with no database getObjects reads
\* localStorage at once and currentObjects is assigned before any other
\* event; with a database the getAll request is awaited first
LoadObjectsFrame(c) ==
    IF UsesIdb("objects")
    THEN [IdleFrame EXCEPT !.op = "loadObjects", !.r = "objects",
                           !.pc = "load_wait"]
    ELSE [IdleFrame EXCEPT !.op = "loadObjects", !.r = "objects",
                           !.pc = "done",
                           !.loaded = LoadFromLS("objects", ls["objects"])]

LoadObjectsUi(u) ==
    IF UsesIdb("objects") THEN u
    ELSE [u EXCEPT !.currentObjects = LoadFromLS("objects", ls["objects"])]

\* the objects view is shown: initialize() calls loadObjects()
ShowObjectsView(c) ==
    /\ Quiet
    /\ calls[c].pc \in {"idle", "done"}
    /\ calls' = [calls EXCEPT ![c] =
          [LoadObjectsFrame(c) EXCEPT !.mode = "showView"]]
    /\ ui' = ShowViewUi(LoadObjectsUi(ui), "objects", ~UsesIdb("objects"))
    /\ txq' = LoadSyncTxq(c, "objects")
    /\ UNCHANGED <<ls, idb, db, events, file, quotaErr, idbErr>>

\* loadObjects after the await: this.currentObjects = ...
LoadObjectsReturn(c) ==
    /\ calls[c].op = "loadObjects" /\ calls[c].pc = "loaded"
    /\ ui' = [ui EXCEPT !.currentObjects = calls[c].loaded,
                        !.currentView = IF calls[c].mode = "showView"
                                        THEN "objects" ELSE @]
    /\ calls' = [calls EXCEPT ![c].pc = "done", ![c].mode = "none"]
    /\ UNCHANGED <<ls, idb, db, txq, events, file, quotaErr, idbErr>>

\* showObjectModal() in create mode: no await on this path
ShowObjectModal ==
    /\ Quiet
    /\ ui.modal = "none"
    /\ ui' = [ui EXCEPT !.currentEditingObject = 0, !.modal = "object"]
    /\ UNCHANGED <<ls, idb, db, txq, calls, events, file, quotaErr, idbErr>>

\* validateObjectForm: id and type are required, and in create mode the id
\* must not be the id of a record of this.currentObjects
validateObjectForm(form, u) ==
    IF form.id = 0 THEN "idRequired"
    ELSE IF ~form.tipo THEN "typeRequired"
    ELSE IF u.currentEditingObject = 0
            /\ findIndex(u.currentObjects, form.id, 1) > 0 THEN "duplicate"
    ELSE "ok"

\* getObjectFormData: the fields validateObjectForm looks at
ObjectFormData(form) ==
    [ctl |-> "object", id |-> form.id, first |-> form.id # 0,
     second |-> form.tipo]

\* the object saveObject builds from the form
FormObject(form) == [id |-> form.id, st |-> "a", ex |-> "n"]

\* ObjectsController.saveObject up to its await of storage.saveObject
SaveObjectForm(c, form) ==
    /\ Quiet
    /\ ui.modal = "object"
    /\ calls[c].op = "idle"
    /\ LET v == validateObjectForm(form, ui)
       IN  IF v # "ok"
           THEN /\ ui' = [ui EXCEPT !.msg = v, !.form = ObjectFormData(form)]
                /\ UNCHANGED <<calls, txq>>
           ELSE /\ calls' = [calls EXCEPT ![c] =
                      LoadSyncFrame(
                         [IdleFrame EXCEPT !.op = "saveRec",
                             !.rec = FormObject(form),
                             !.mode = IF ui.currentEditingObject = 0
                                      THEN "create" ELSE "edit"],
                         "objects")]
                /\ txq' = LoadSyncTxq(c, "objects")
                /\ ui' = [ui EXCEPT !.form = ObjectFormData(form)]
    /\ UNCHANGED <<ls, idb, db, events, file, quotaErr, idbErr>>

\* one click on objectSaveBtn: the listener the controller put on the button
\* calls this.saveObject() twice, one call after the other in the same
\* event, each up to its await of storage.saveObject (the listener of the
\* application dispatches a submit event that does not bubble, so
\* handleSubmit on document is not reached)
ClickObjectSave(c1, c2, form) ==
    /\ Quiet
    /\ ui.modal = "object"
    /\ calls[c1].op = "idle" /\ calls[c2].op = "idle"
    /\ LET v == validateObjectForm(form, ui)
           f == LoadSyncFrame(
                   [IdleFrame EXCEPT !.op = "saveRec",
                       !.rec = FormObject(form),
                       !.mode = IF ui.currentEditingObject = 0
                                THEN "create" ELSE "edit"],
                   "objects")
       IN  IF v # "ok"
           THEN /\ ui' = [ui EXCEPT !.msg = v, !.form = ObjectFormData(form)]
                /\ UNCHANGED <<calls, txq>>
           ELSE /\ calls' = [calls EXCEPT ![c1] = f, ![c2] = f]
                /\ txq' = IF UsesIdb("objects")
                          THEN [txq EXCEPT !["objects"] =
                                  Append(Append(@, [c |-> c1, kind |-> "getAll"]),
                                         [c |-> c2, kind |-> "getAll"])]
                          ELSE txq
                /\ ui' = [ui EXCEPT !.form = ObjectFormData(form)]
    /\ UNCHANGED <<ls, idb, db, events, file, quotaErr, idbErr>>

\* storage.saveObject dispatches objectsUpdated and returns: the listener
\* of the controller starts loadObjects in slot l, then saveObject of the
\* controller closes the modal and shows its message
ObjectsUpdatedDispatch(c, l) ==
    /\ calls[c].op = "saveRec" /\ calls[c].pc = "saved"
    /\ calls[c].r = "objects"
    /\ events' = Dispatch("objectsUpdated", c)
    /\ calls' = [calls EXCEPT ![c].pc = "done",
                              ![l] = Reload(l, LoadObjectsFrame(l))]
    /\ txq' = LoadSyncTxq(l, "objects")
    /\ ui' = [LoadObjectsUi(ui) EXCEPT !.currentEditingObject = 0,
                                       !.modal = "none", !.msg = "saved"]
    /\ UNCHANGED <<ls, idb, db, file, quotaErr, idbErr>>

(* -------------------------- TasksController ---------------------------- *)
\* loadTasks, called by initialize when the tasks view is shown and by the
\* tasksUpdated listener
LoadTasksFrame(c) ==
    IF UsesIdb("tasks")
    THEN [IdleFrame EXCEPT !.op = "loadTasks", !.r = "tasks",
                           !.pc = "load_wait"]
    ELSE [IdleFrame EXCEPT !.op = "loadTasks", !.r = "tasks",
                           !.pc = "done",
                           !.loaded = LoadFromLS("tasks", ls["tasks"])]

LoadTasksUi(u) ==
    IF UsesIdb("tasks") THEN u
    ELSE [u EXCEPT !.currentTasks = LoadFromLS("tasks", ls["tasks"])]

\* the tasks view is shown: initialize() calls loadTasks()
ShowTasksView(c) ==
    /\ Quiet
    /\ calls[c].pc \in {"idle", "done"}
    /\ calls' = [calls EXCEPT ![c] =
          [LoadTasksFrame(c) EXCEPT !.mode = "showView"]]
    /\ ui' = ShowViewUi(LoadTasksUi(ui), "tasks", ~UsesIdb("tasks"))
    /\ txq' = LoadSyncTxq(c, "tasks")
    /\ UNCHANGED <<ls, idb, db, events, file, quotaErr, idbErr>>

\* loadTasks after the await: this.currentTasks = ...
LoadTasksReturn(c) ==
    /\ calls[c].op = "loadTasks" /\ calls[c].pc = "loaded"
    /\ ui' = [ui EXCEPT !.currentTasks = calls[c].loaded,
                        !.currentView = IF calls[c].mode = "showView"
                                        THEN "tasks" ELSE @]
    /\ calls' = [calls EXCEPT ![c].pc = "done", ![c].mode = "none"]
    /\ UNCHANGED <<ls, idb, db, txq, events, file, quotaErr, idbErr>>

\* showTaskModal() in create mode, shown once generateTaskId has returned
\* the default of the id field
ShowTaskModal ==
    /\ Quiet
    /\ ui.modal = "none"
    /\ ui' = [ui EXCEPT !.currentEditingTask = 0, !.modal = "task"]
    /\ UNCHANGED <<ls, idb, db, txq, calls, events, file, quotaErr, idbErr>>

\* a validation that asks for the title only
validateTaskForm_TitleOnly(form, u) ==
    IF ~form.titulo THEN "titleRequired"
    ELSE "ok"

\* validateTaskForm: title and deadline are required; the id is not looked
\* at
validateTaskForm(form, u) ==
    IF ~form.titulo THEN "titleRequired"
    ELSE IF ~form.prazo THEN "deadlineRequired"
    ELSE "ok"

\* getTaskFormData: the fields validateTaskForm looks at
TaskFormData(form) ==
    [ctl |-> "task", id |-> form.id, first |-> form.titulo,
     second |-> form.prazo]

\* the task saveTask builds from the form
FormTask(form) == [id |-> form.id, st |-> "a", ex |-> "n"]

\* TasksController.saveTask up to its await of storage.saveTask
SaveTaskForm(c, form) ==
    /\ Quiet
    /\ ui.modal = "task"
    /\ calls[c].op = "idle"
    /\ LET v == validateTaskForm(form, ui)
       IN  IF v # "ok"
           THEN /\ ui' = [ui EXCEPT !.msg = v, !.form = TaskFormData(form)]
                /\ UNCHANGED <<calls, txq>>
           ELSE /\ calls' = [calls EXCEPT ![c] =
                      LoadSyncFrame(
                         [IdleFrame EXCEPT !.op = "saveRec",
                             !.rec = FormTask(form),
                             !.mode = IF ui.currentEditingTask = 0
                                      THEN "create" ELSE "edit"],
                         "tasks")]
                /\ txq' = LoadSyncTxq(c, "tasks")
                /\ ui' = [ui EXCEPT !.form = TaskFormData(form)]
    /\ UNCHANGED <<ls, idb, db, events, file, quotaErr, idbErr>>

\* storage.saveTask dispatches tasksUpdated and returns: the listener of the
\* controller starts loadTasks in slot l, then saveTask of the controller
\* closes the modal and shows its message
TasksUpdatedDispatch(c, l) ==
    /\ calls[c].op = "saveRec" /\ calls[c].pc = "saved"
    /\ calls[c].r = "tasks"
    /\ events' = Dispatch("tasksUpdated", c)
    /\ calls' = [calls EXCEPT ![c].pc = "done",
                              ![l] = Reload(l, LoadTasksFrame(l))]
    /\ txq' = LoadSyncTxq(l, "tasks")
    /\ ui' = [LoadTasksUi(ui) EXCEPT !.currentEditingTask = 0,
                                     !.modal = "none", !.msg = "saved"]
    /\ UNCHANGED <<ls, idb, db, file, quotaErr, idbErr>>

\* TasksController.deleteTask, the callback of the confirmation dialog, up
\* to its await of storage.deleteTask
DeleteTask(c, id) ==
    /\ Quiet
    /\ CallDeleteRec(c, "tasks", id)

\* storage.deleteTask dispatches tasksUpdated and returns: the listener
\* starts loadTasks in slot l, then deleteTask shows its message
TaskDeletedDispatch(c, l) ==
    /\ calls[c].op = "deleteRec" /\ calls[c].pc = "saved"
    /\ calls[c].r = "tasks"
    /\ events' = Dispatch("tasksUpdated", c)
    /\ calls' = [calls EXCEPT ![c].pc = "done",
                              ![l] = Reload(l, LoadTasksFrame(l))]
    /\ txq' = LoadSyncTxq(l, "tasks")
    /\ ui' = [LoadTasksUi(ui) EXCEPT !.msg = "deleted"]
    /\ UNCHANGED <<ls, idb, db, file, quotaErr, idbErr>>

(* ---------------------------- getDataSummary --------------------------- *)
\* Numbers are IEEE 754 doubles.  A positive double is kept as its
\* significand, a sequence of bits with the most significant bit first,
\* and the count f of those bits that lie behind the binary point.
Precision == 53

Reverse(s) == [i \in 1..Len(s) |-> s[Len(s) + 1 - i]]
Zeros(k) == [i \in 1..k |-> 0]

RECURSIVE AddBits(_, _, _)
\* the sum of two bit sequences, least significant bit first
AddBits(a, b, carry) ==
    IF a = << >> /\ b = << >>
    THEN IF carry = 1 THEN <<1>> ELSE << >>
    ELSE LET x == IF a = << >> THEN 0 ELSE Head(a)
             y == IF b = << >> THEN 0 ELSE Head(b)
             t == x + y + carry
         IN  <<t % 2>> \o AddBits(IF a = << >> THEN a ELSE Tail(a),
                                  IF b = << >> THEN b ELSE Tail(b),
                                  t \div 2)

Increment(m) == Reverse(AddBits(Reverse(m), <<1>>, 0))

RECURSIVE BitsVal(_, _)
BitsVal(m, acc) ==
    IF m = << >> THEN acc ELSE BitsVal(Tail(m), 2 * acc + Head(m))

\* round to nearest, ties to even: guard is the first bit dropped, sticky
\* tells whether anything is left behind it
RoundEven(kept, guard, sticky) ==
    IF guard = 1 /\ (sticky \/ kept[Len(kept)] = 1)
    THEN Increment(kept) ELSE kept

RECURSIVE LeadingZeros(_, _)
\* the zero bits behind the binary point of r / n, for 0 < r < n
LeadingZeros(r, n) ==
    IF 2 * r >= n THEN 0 ELSE 1 + LeadingZeros(2 * r, n)

RECURSIVE Shifted(_, _, _)
Shifted(r, n, k) == IF k = 0 THEN r ELSE Shifted(2 * r, n, k - 1)

RECURSIVE Quotient(_, _, _, _)
\* long division: k more bits of r / n, with the remainder left
Quotient(r, n, k, bits) ==
    IF k = 0 THEN [bits |-> bits, rem |-> r]
    ELSE LET b == IF 2 * r >= n THEN 1 ELSE 0
         IN  Quotient(2 * r - b * n, n, k - 1, Append(bits, b))

\* the double c / n, for 0 < c < n
Divide(c, n) ==
    LET z  == LeadingZeros(c, n)
        q  == Quotient(Shifted(c, n, z), n, Precision, << >>)
        g  == IF 2 * q.rem >= n THEN 1 ELSE 0
        r2 == 2 * q.rem - g * n
    IN  [m |-> RoundEven(q.bits, g, r2 # 0), f |-> z + Precision]

\* the double x * 100: the exact product is x*64 + x*32 + x*4, rounded to
\* the precision
Times100(x) ==
    LET lsb   == Reverse(x.m)
        prod  == Reverse(AddBits(AddBits(Zeros(6) \o lsb, Zeros(5) \o lsb, 0),
                                 Zeros(2) \o lsb, 0))
        d     == Len(prod) - Precision
        kept  == SubSeq(prod, 1, Precision)
        guard == IF d > 0 THEN prod[Precision + 1] ELSE 0
        stick == \E i \in (Precision + 2)..Len(prod) : prod[i] = 1
    IN  IF d <= 0 THEN [m |-> prod, f |-> x.f]
        ELSE [m |-> RoundEven(kept, guard, stick), f |-> x.f - d]

\* Math.round of a positive double: the nearest integer, a half goes up
MathRound(x) ==
    LET w == Len(x.m) - x.f      \* bits before the binary point
    IN  IF w < 0 THEN 0
        ELSE BitsVal(SubSeq(x.m, 1, w), 0)
                + (IF x.f > 0 THEN x.m[w + 1] ELSE 0)

\* Math.round((completed / total) * 100)
Percentage(completed, total) ==
    IF completed = 0 THEN 0
    ELSE IF completed = total THEN 100
    ELSE MathRound(Times100(Divide(completed, total)))

\* a percentage computed as round(100 * completed / total) in integers
Percentage_Exact(completed, total) ==
    (200 * completed + total) \div (2 * total)

Count(s, status) == Cardinality({i \in 1..Len(s) : s[i].status = status})

\* the object getDataSummary returns for the loaded tasks and objects
getDataSummary(tasks, objects) ==
    [totalTasks |-> Len(tasks),
     activeTasks |-> Cardinality({i \in 1..Len(tasks) :
                                     tasks[i].status # "concluido"}),
     completedTasks |-> Count(tasks, "concluido"),
     totalObjects |-> Len(objects),
     convertedObjects |-> Count(objects, "convertido"),
     progressPercentage |->
        IF Len(tasks) > 0
        THEN Percentage(Count(tasks, "concluido"), Len(tasks))
        ELSE 0]

\* getDataSummary once its three loads have returned
GetDataSummary ==
    /\ ~ui.summary.done
    /\ ui' = [ui EXCEPT !.summary.done = TRUE,
                        !.summary.out = getDataSummary(ui.summary.tasks,
                                                       ui.summary.objects)]
    /\ UNCHANGED <<ls, idb, db, txq, calls, events, file, quotaErr, idbErr>>

(* ----------------------- the confirmation dialog ----------------------- *)
\* the delete button of task id, while no modal covers the list:
\* confirmDeleteTask up to its await of storage.getTaskById
ConfirmDeleteTask(c, id) ==
    /\ Quiet
    /\ ui.modal = "none" /\ ~ui.confirm.open
    /\ calls[c].pc \in {"idle", "done"}
    /\ calls' = [calls EXCEPT ![c] =
          LoadSyncFrame([IdleFrame EXCEPT !.op = "getById", !.id = id,
                                          !.mode = "confirm"], "tasks")]
    /\ txq' = LoadSyncTxq(c, "tasks")
    /\ UNCHANGED <<ls, idb, db, events, file, quotaErr, idbErr, ui>>

\* a showConfirmModal that keeps a callback that is still registered
showConfirmModal_KeepsCallback(q, id) ==
    [q EXCEPT !.open = TRUE, !.shown = id,
              !.callback = IF @ # 0 THEN @ ELSE id]

\* showConfirmModal(title, message, callback): message and callback are
\* set together, then the modal is shown
showConfirmModal(q, id) ==
    [q EXCEPT !.open = TRUE, !.shown = id, !.callback = id]

\* confirmDeleteTask after getTaskById: an unknown task gives an error
\* message, a known one opens the dialog
ShowConfirmModal(c) ==
    /\ calls[c].op = "getById" /\ calls[c].pc = "loaded"
    /\ calls[c].mode = "confirm"
    /\ LET found == Find(calls[c].loaded, calls[c].id)
       IN  /\ calls' = [calls EXCEPT ![c].found = found, ![c].pc = "done",
                                     ![c].mode = "none"]
           /\ ui' = IF found = NotFound
                    THEN [ui EXCEPT !.msg = "notFound"]
                    ELSE [ui EXCEPT !.confirm =
                            showConfirmModal(@, calls[c].id)]
    /\ UNCHANGED <<ls, idb, db, txq, events, file, quotaErr, idbErr>>

\* confirmCancelBtn, a close button, the backdrop or Escape: closeModal /
\* closeActiveModal remove the class 'active' and nothing else
ConfirmCancel ==
    /\ Quiet
    /\ ui.confirm.open
    /\ ui' = [ui EXCEPT !.confirm.open = FALSE,
                        !.confirm.cancelled = ui.confirm.shown]
    /\ UNCHANGED <<ls, idb, db, txq, calls, events, file, quotaErr, idbErr>>

\* confirmOkBtn while the dialog is shown: executeConfirmAction runs the
\* callback when there is one (deleteTask up to its await of
\* storage.deleteTask, in slot c), sets it to null and closes the modal
ConfirmOk(c) ==
    /\ Quiet
    /\ ui.confirm.open
    /\ ui' = [ui EXCEPT !.confirm.open = FALSE, !.confirm.callback = 0]
    /\ IF ui.confirm.callback # 0
       THEN /\ calls[c].pc \in {"idle", "done"}
            /\ calls' = [calls EXCEPT ![c] =
                  LoadSyncFrame([IdleFrame EXCEPT !.op = "deleteRec",
                                     !.id = ui.confirm.callback], "tasks")]
            /\ txq' = LoadSyncTxq(c, "tasks")
       ELSE UNCHANGED <<calls, txq>>
    /\ UNCHANGED <<ls, idb, db, events, file, quotaErr, idbErr>>

(* ------------------------------ debounce ------------------------------- *)
Wait == 300          \* the delay handed to debounce
MaxTicks == 8        \* the clock stops after MaxTicks steps
MaxInputs == 4       \* input events the user makes
Quantum == Wait \div 3

\* an executedFunction that sets its timer without clearing the earlier one
executedFunction_NoClear(q) ==
    LET newBurst == q.typed = 0 \/ q.now - q.lastInput >= Wait
    IN  [q EXCEPT !.timers = @ \cup {q.now + Wait},
                  !.timeout = q.now + Wait,
                  !.typed = @ + 1, !.lastInput = q.now,
                  !.burstLen = IF newBurst THEN 1 ELSE 2,
                  !.applied = 0,
                  !.burstApplied = IF newBurst THEN 0 ELSE @,
                  !.missed = @ \/ (newBurst /\ q.typed > 0
                                      /\ q.burstApplied # 1)]

\* executedFunction, the listener of the input event: clearTimeout(timeout);
\* timeout = setTimeout(later, wait).  An event less than wait after the
\* previous one continues the burst, any other begins a new one
executedFunction(q) ==
    LET newBurst == q.typed = 0 \/ q.now - q.lastInput >= Wait
    IN  [q EXCEPT !.timers = (@ \ {q.timeout}) \cup {q.now + Wait},
                  !.timeout = q.now + Wait,
                  !.typed = @ + 1, !.lastInput = q.now,
                  !.burstLen = IF newBurst THEN 1 ELSE 2,
                  !.applied = 0,
                  !.burstApplied = IF newBurst THEN 0 ELSE @,
                  !.missed = @ \/ (newBurst /\ q.typed > 0
                                      /\ q.burstApplied # 1)]

\* an input event on the search box
InputEvent ==
    /\ ui.search.typed < MaxInputs
    /\ ui' = [ui EXCEPT !.search = executedFunction(@)]
    /\ UNCHANGED <<ls, idb, db, txq, calls, events, file, quotaErr, idbErr>>

\* later, the callback of the timer due at d: clearTimeout(timeout);
\* func(), which calls applyFilters.  setTimeout runs its callback when at
\* least wait ms have passed, and possibly later
later(d) ==
    /\ d \in ui.search.timers /\ ui.search.now >= d
    /\ ui' = [ui EXCEPT !.search =
          [@ EXCEPT !.timers = (@ \ {d}) \ {ui.search.timeout},
                    !.applied = @ + 1, !.burstApplied = @ + 1,
                    !.appliedAt = ui.search.now]]
    /\ UNCHANGED <<ls, idb, db, txq, calls, events, file, quotaErr, idbErr>>

\* time passes
Tick ==
    /\ ui.search.now < MaxTicks * Quantum
    /\ ui' = [ui EXCEPT !.search.now = @ + Quantum]
    /\ UNCHANGED <<ls, idb, db, txq, calls, events, file, quotaErr, idbErr>>

NextDebounce ==
    \/ InputEvent
    \/ \E d \in ui.search.timers : later(d)
    \/ Tick

(* --------------------------- the application --------------------------- *)
\* the views showView accepts whose elements and controllers are in src:
\* 'dependencies' has no controller
Views == {"dashboard", "tasks", "objects", "dependencies", "settings"}
HasInitialize(v) == v \in {"dashboard", "tasks", "objects", "settings"}

\* the initialize of the view's controller waits for a request to the
\* database: the dashboard reads the collections (getDataSummary), the
\* settings read only the profile and the settings, which are kept in
\* localStorage, so their awaits end before any other event is handled
AwaitsDatabase(v) == HasInitialize(v) /\ v # "settings" /\ db = "open"

\* showView(v) for the dashboard, the settings and the dependencies: the
\* element is marked active; with a controller, its initialize is awaited
\* before this.currentView is assigned
ShowView(v) ==
    /\ Quiet
    /\ v \in {"dashboard", "settings", "dependencies"}
    /\ v \notin ui.initializing
    /\ ui' = [ui EXCEPT !.activeView = v,
                        !.initializing = IF AwaitsDatabase(v) THEN @ \cup {v}
                                         ELSE @,
                        !.currentView = IF AwaitsDatabase(v) THEN @ ELSE v]
    /\ UNCHANGED <<ls, idb, db, txq, calls, events, file, quotaErr, idbErr>>

\* initialize of the dashboard controller has returned
ViewInitialized(v) ==
    /\ v \in ui.initializing
    /\ ui' = [ui EXCEPT !.initializing = @ \ {v}, !.currentView = v]
    /\ UNCHANGED <<ls, idb, db, txq, calls, events, file, quotaErr, idbErr>>

\* SettingsController.importData: the file chosen in the settings view is
\* handed to storage.importData
ImportFile(c, text) ==
    /\ Quiet
    /\ ui.activeView = "settings"
    /\ CallImport(c, text)

\* storage.importData returned success: the settings controller reloads
\* its own data and dispatches dataRefreshNeeded, on which the application
\* calls initialize of the controller of this.currentView only
SettingsImported(c, lt, lo) ==
    /\ calls[c].op = "import" /\ calls[c].pc = "done"
    /\ calls[c].ok = "success" /\ calls[c].mode = "none"
    /\ events' = Dispatch("dataRefreshNeeded", c)
    /\ IF ui.currentView = "tasks"
       THEN /\ calls' = [calls EXCEPT ![c].mode = "refreshed",
                                      ![lt] = Reload(lt, LoadTasksFrame(lt))]
            /\ txq' = LoadSyncTxq(lt, "tasks")
            /\ ui' = LoadTasksUi(ui)
       ELSE IF ui.currentView = "objects"
       THEN /\ calls' = [calls EXCEPT ![c].mode = "refreshed",
                                      ![lo] = Reload(lo, LoadObjectsFrame(lo))]
            /\ txq' = LoadSyncTxq(lo, "objects")
            /\ ui' = LoadObjectsUi(ui)
       ELSE /\ calls' = [calls EXCEPT ![c].mode = "refreshed"]
            /\ UNCHANGED <<txq, ui>>
    /\ UNCHANGED <<ls, idb, db, file, quotaErr, idbErr>>

\* SettingsController.clearAllData, the callback of the confirmation dialog
ClearAll(c) ==
    /\ Quiet
    /\ ui.activeView = "settings"
    /\ CallClearAll(c)

\* storage.clearAllData dispatched dataCleared: refreshAllViews awaits the
\* initialize of every controller in turn, here up to the one of the tasks
\* controller (the dispatch of the settings controller starts a second
\* pass over the same controllers)
DataCleared(c, lt) ==
    /\ calls[c].op = "clearAll" /\ calls[c].pc = "done"
    /\ calls[c].ok = "success" /\ calls[c].mode = "none"
    /\ calls' = [calls EXCEPT ![c].mode = "refreshed",
                              ![lt] = Reload(lt, LoadTasksFrame(lt))]
    /\ txq' = LoadSyncTxq(lt, "tasks")
    /\ ui' = [LoadTasksUi(ui) EXCEPT !.refreshAll = "tasks"]
    /\ UNCHANGED <<ls, idb, db, events, file, quotaErr, idbErr>>

\* refreshAllViews: initialize of the tasks controller has returned, the
\* one of the objects controller is awaited
RefreshAllObjects(lt, lo) ==
    /\ ui.refreshAll = "tasks" /\ calls[lt].pc = "done"
    /\ calls' = [calls EXCEPT ![lo] = Reload(lo, LoadObjectsFrame(lo))]
    /\ txq' = LoadSyncTxq(lo, "objects")
    /\ ui' = [LoadObjectsUi(ui) EXCEPT !.refreshAll = "objects"]
    /\ UNCHANGED <<ls, idb, db, events, file, quotaErr, idbErr>>

\* refreshAllViews: the last initialize has returned
RefreshAllDone(lo) ==
    /\ ui.refreshAll = "objects" /\ calls[lo].pc = "done"
    /\ ui' = [ui EXCEPT !.refreshAll = "none"]
    /\ UNCHANGED <<ls, idb, db, txq, calls, events, file, quotaErr, idbErr>>

(* ------------------------- initial states ------------------------------ *)
\* what JSON.stringify can have written: records without undefined fields
StoredRecs == {rec \in Recs : rec.ex = "n"}
Lists(S, n) == UNION {[1..m -> S] : m \in 0..n}

InitBase ==
    /\ idb = [r \in Coll |-> << >>]
    /\ db = "opening"
    /\ txq = [r \in Coll |-> << >>]
    /\ calls = [c \in CallIds |-> IdleFrame]
    /\ events = << >>
    /\ file = NoDoc
    /\ quotaErr = FALSE
    /\ idbErr = FALSE
    /\ ui = NoUi

\* page load: localStorage holds what earlier sessions saved, here one
\* collection of at most MaxLen records
Init ==
    /\ InitBase
    /\ \E r0 \in Coll : \E l \in Lists(StoredRecs, MaxLen) :
          ls = [r \in Keys |-> IF r = r0 /\ l # << >> THEN Val(l) ELSE Absent(r)]

\* records handed to the upserts: every stored shape, and one with an
\* undefined field
InRecs == {rec \in Recs : rec.ex = "u" => rec.st = "a"}

\* a call on a collection in slot 1, followed by a get-by-id in slot 2
Next ==
    \/ DBOpened
    \/ \E r \in Coll : TxCommit(r) \/ ClearRun(r) \/ GetAllRun(r)
    \/ \E r \in Coll : \E rec \in InRecs : CallSaveRec(1, r, rec)
    \/ \E r \in {"tasks", "objects"} : \E id \in Ids : CallDeleteRec(1, r, id)
    \/ \E r \in {"tasks", "objects"} : \E id \in Ids : CallGetById(2, r, id)
    \/ \E c \in CallIds :
          \/ SaveRecWrite(c) \/ DeleteRecWrite(c) \/ GetByIdReturn(c)
          \/ UpdateDispatch(c)

Spec == Init /\ [][Next]_vars


(* ------------- loadData as a function of the two backends -------------- *)
\* contents an object store can have: distinct keys, in key order
StoreContents(n) ==
    {l \in Lists(Recs, n) : \A i \in 1..Len(l) : \A j \in 1..Len(l) :
                               i < j => l[i].id < l[j].id}

\* the entries localStorage can hold for r
LsEntries(r, n) ==
    {Absent(r), Corrupt(r)} \cup
    (IF r \in Coll THEN {Val(l) : l \in Lists(StoredRecs, n)}
     ELSE {Val(v) : v \in SingleVals(r)})

\* any state of the two backends for one resource, the database open or not
InitLoad ==
    /\ txq = [r \in Coll |-> << >>]
    /\ calls = [c \in CallIds |-> IdleFrame]
    /\ events = << >>
    /\ file = NoDoc
    /\ quotaErr = FALSE
    /\ idbErr = FALSE
    /\ ui = NoUi
    /\ db \in {"opening", "open"}
    /\ \E r0 \in Res : \E e \in LsEntries(r0, MaxLen) :
       \E st \in StoreContents(MaxLen) :
          /\ ls = [r \in Keys |-> IF r = r0 THEN e ELSE Absent(r)]
          /\ idb = [r \in Coll |-> IF r = r0 THEN st ELSE << >>]

NextLoad ==
    \/ \E r \in Res : CallLoad(1, r)
    \/ \E r \in Coll : GetAllRun(r)
    \/ LoadReturn(1)

SpecLoad == InitLoad /\ [][NextLoad]_vars

(* ------------------- export, clear-all, import ------------------------- *)
\* the record import documents carry
DocRec == [id |-> 1, st |-> "b", ex |-> "n"]

\* values a key of an import document can have
DocEntries(r) ==
    {Absent(r), Falsy(r)} \cup
    (IF r \in Coll THEN {Val(<< >>), Val(<<DocRec>>)}
     ELSE {Val(v) : v \in SingleVals(r) \ {getDefaultData(r)}})

\* documents with at most two keys
Docs ==
    {d \in {[profile |-> p, settings |-> g, tasks |-> t, objects |-> o,
             requests |-> q] :
               p \in DocEntries("profile"), g \in DocEntries("settings"),
               t \in DocEntries("tasks"), o \in DocEntries("objects"),
               q \in DocEntries("requests")} :
        Cardinality({r \in Res : d[r].k # "absent"}) <= 2}

\* texts handed to importData; a value that is not an object has none of
\* the five keys
Texts == {[good |-> TRUE, shape |-> "object", d |-> d] : d \in Docs}
            \cup {[good |-> FALSE, shape |-> "none", d |-> NoDoc],
                  [good |-> TRUE, shape |-> "null", d |-> NoDoc],
                  [good |-> TRUE, shape |-> "other", d |-> NoDoc]}

\* page load: any of the five resources may have been saved before
InitIO ==
    /\ InitBase
    /\ \E r0 \in Coll : \E l \in Lists(StoredRecs, MaxLen) :
       \E p \in {Absent("profile"), Val("profile1")} :
       \E g \in {Absent("settings"), Val("settings1")} :
          ls = [r \in Keys |->
                  CASE r = "profile"  -> p
                    [] r = "settings" -> g
                    [] r = r0 /\ l # << >> -> Val(l)
                    [] OTHER -> Absent(r)]

\* slot 1: an export or an import; slot 2: clear-all; slot 3: an import of
\* the exported file
NextIO ==
    \/ DBOpened
    \/ \E r \in Coll : TxCommit(r) \/ ClearRun(r) \/ GetAllRun(r)
    \/ CallExport(1)
    \/ \E t \in Texts : CallImport(1, t)
    \/ CallClearAll(2)
    \/ file # NoDoc /\ CallImport(3, [good |-> TRUE, shape |-> "object", d |-> file])
    \/ \E c \in CallIds : ExportNext(c) \/ ImportNext(c)

SpecIO == InitIO /\ [][NextIO]_vars

(* --------------------------- id generation ----------------------------- *)
MaxSuf  == 2     \* longest suffix drawn from SufChars
MaxTsks == 2     \* longest collection handed to generateTaskId
SufChars == {"9", "x"}

\* suffixes of the stored task ids: short strings of digits and letters,
\* the numerals 09, 001 and 999, and the numerals around 2^53
Suffixes ==
    UNION {[1..m -> SufChars] : m \in 0..MaxSuf}
       \cup {<<"0", "9">>, <<"0", "0", "1">>, <<"9", "9", "9">>,
             <<Numeral53m1>>, <<Numeral53>>}

TaskIds == [pre : {"TSK", "OBJ"}, suf : Suffixes]

\* page load with tasks of any ids stored
InitGen ==
    /\ InitBase
    /\ \E l \in Lists([id : TaskIds], MaxTsks) :
          ls = [r \in Keys |-> IF r = "tasks" /\ l # << >> THEN Val(l)
                               ELSE Absent(r)]

NextGen ==
    \/ DBOpened
    \/ CallGenerateTaskId(1)
    \/ GetAllRun("tasks")
    \/ GenerateTaskIdReturn(1)

SpecGen == InitGen /\ [][NextGen]_vars

(* ------------------------------- search -------------------------------- *)
MaxStored == 2     \* longest collection searched

\* stored tasks and objects; an imported record may lack any property
SearchTasks ==
    [id : {<<"a">>, <<"B">>}, titulo : {Undef, <<"A", "b">>},
     descricao : {Undef, <<"b", "a">>}, status : {"s1"},
     prioridade : {"p1", "p2"}, categoria : {"c1"}]
SearchObjects ==
    [id : {<<"a">>, <<"B">>}, nome : {Undef, <<"A", "b">>},
     notas : {Undef, <<"b", "a">>}, tipo : {"t1", "t2"},
     status : {"s1"}]
SearchRecs(r) == IF r = "tasks" THEN SearchTasks ELSE SearchObjects

Queries == {<< >>, <<"a">>, <<"A", "B">>, <<"b", "a">>}
Filters(r) ==
    IF r = "tasks"
    THEN [status : {"", "s1"}, priority : {"", "p1"},
          category : {"", "c2"}, type : {""}]
    ELSE [status : {"", "s1"}, priority : {""}, category : {""},
          type : {"", "t1"}]

InitSearch ==
    /\ InitBase
    /\ \E r0 \in {"tasks", "objects"} :
       \E l \in Lists(SearchRecs(r0), MaxStored) :
          ls = [r \in Keys |-> IF r = r0 /\ l # << >> THEN Val(l)
                               ELSE Absent(r)]

NextSearch ==
    \/ DBOpened
    \/ \E r \in {"tasks", "objects"} : \E q \in Queries :
       \E fl \in Filters(r) : CallSearch(1, r, q, fl)
    \/ \E r \in {"tasks", "objects"} : GetAllRun(r)
    \/ SearchReturn(1)

SpecSearch == InitSearch /\ [][NextSearch]_vars

(* --------------------------- read operations --------------------------- *)
\* one read operation on stored tasks or objects
NextRead ==
    \/ DBOpened
    \/ \E r \in {"tasks", "objects"} : \E q \in {<< >>, <<"a">>} :
          CallSearch(1, r, q, NoFilters)
    \/ \E r \in {"tasks", "objects"} : \E id \in {<<"a">>, <<"B">>} :
          CallGetById(1, r, id)
    \/ CallExport(1)
    \/ CallSummary(1)
    \/ \E r \in Coll : GetAllRun(r)
    \/ SearchReturn(1) \/ GetByIdReturn(1) \/ ExportNext(1) \/ SummaryNext(1)

SpecRead == InitSearch /\ [][NextRead]_vars

(* ----------------------------- clear-all ------------------------------- *)
\* a backup stamped before the clear-all of slot 1, a load in slot 2
NextClear ==
    \/ DBOpened
    \/ calls[1].op = "idle" /\ SetLastBackupDate
    \/ CallClearAll(1)
    \/ \E r \in Res : CallLoad(2, r)
    \/ \E r \in Coll : ClearRun(r) \/ GetAllRun(r)
    \/ LoadReturn(2)

SpecClear == InitIO /\ [][NextClear]_vars

(* ------------------------- failing backends ---------------------------- *)
\* page load with some tasks saved before
InitFault ==
    /\ InitBase
    /\ \E l \in Lists(StoredRecs, MaxLen) :
          ls = [r \in Keys |-> IF r = "tasks" /\ l # << >> THEN Val(l)
                              ELSE Absent(r)]

\* a save in slot 1 and a load in slot 2, with the quota of localStorage
\* and the requests of IndexedDB failing at any time
NextFault ==
    \/ DBOpened
    \/ DBOpenFailed
    \/ QuotaFault
    \/ IdbFault
    \/ \E r \in Coll : TxCommit(r) \/ ClearRun(r) \/ GetAllRun(r)
    \/ \E rec \in InRecs : CallSaveRec(1, "tasks", rec)
    \/ \E id \in Ids : CallDeleteRec(1, "tasks", id)
    \/ \E v \in SingleVals("profile") : CallSaveProfile(1, v)
    \/ \E r \in {"tasks", "profile"} : CallLoad(2, r)
    \/ \E c \in CallIds :
          \/ SaveRecWrite(c) \/ DeleteRecWrite(c) \/ UpdateDispatch(c)
          \/ LoadReturn(c)

SpecFault == InitFault /\ [][NextFault]_vars

(* -------------------------- overlapping calls -------------------------- *)
\* the records of the overlapping upserts: one per id
OverlapRecs == {rec \in InRecs : rec.st = "a" /\ rec.ex = "n"}

\* two upserts on the tasks, the second called at any time after the first
NextOverlap ==
    \/ DBOpened
    \/ \E r \in Coll : TxCommit(r) \/ ClearRun(r) \/ GetAllRun(r)
    \/ \E c \in {1, 2} : \E rec \in OverlapRecs :
          OverlapSaveRec(c, "tasks", rec)
    \/ \E c \in {1, 2} : SaveRecWrite(c) \/ UpdateDispatch(c)

SpecOverlap == InitFault /\ [][NextOverlap]_vars

(* ------------------------- sequences of writes ------------------------- *)
\* no two records of s have the same id
NoDup(s) == \A i \in 1..Len(s) : \A j \in 1..Len(s) : s[i].id = s[j].id => i = j

\* page load with tasks of distinct ids stored
InitUnique ==
    /\ InitBase
    /\ \E l \in {x \in Lists(OverlapRecs, MaxLen) : NoDup(x)} :
          ls = [r \in Keys |-> IF r = "tasks" /\ l # << >> THEN Val(l)
                               ELSE Absent(r)]

\* import documents with a list of tasks: one record, two records of
\* different ids, the same id twice
TaskDocs ==
    {[NoDoc EXCEPT !["tasks"] = Val(l)] :
        l \in {<<DocRec>>, <<DocRec, [DocRec EXCEPT !.id = 2]>>,
               <<DocRec, [DocRec EXCEPT !.st = "a"]>>}}

\* any three of: an upsert, a delete, an import, a clear-all
NextSeq ==
    \/ DBOpened
    \/ \E r \in Coll : TxCommit(r) \/ ClearRun(r) \/ GetAllRun(r)
    \/ \E c \in CallIds :
          \/ \E r \in {"tasks", "objects"} : \E rec \in OverlapRecs :
                CallSaveRec(c, r, rec)
          \/ \E id \in Ids : CallDeleteRec(c, "tasks", id)
          \/ \E d \in TaskDocs :
                CallImport(c, [good |-> TRUE, shape |-> "object", d |-> d])
          \/ CallClearAll(c)
          \/ SaveRecWrite(c) \/ DeleteRecWrite(c) \/ UpdateDispatch(c)
          \/ ImportNext(c)

SpecSeq == InitUnique /\ [][NextSeq]_vars

\* first page load: nothing in localStorage, the object stores just created
InitFresh ==
    /\ InitBase
    /\ ls = [r \in Keys |-> Absent(r)]

SpecFresh == InitFresh /\ [][NextSeq]_vars

\* the steps the event loop takes without the user: the open request and
\* the requests and transactions of IndexedDB complete, and a continuation
\* that is ready runs
Progress ==
    \/ DBOpened
    \/ \E r \in Coll : TxCommit(r) \/ ClearRun(r) \/ GetAllRun(r)
    \/ \E c \in CallIds :
          \/ SaveRecWrite(c) \/ DeleteRecWrite(c) \/ UpdateDispatch(c)
          \/ ImportNext(c)

\* the same sequences of calls, with the event loop never starving a step
\* that is ready
SpecLive == InitUnique /\ [][NextSeq]_vars /\ WF_vars(Progress)

(* -------------------------- creating objects --------------------------- *)
\* the forms the user can submit: id empty or not, type chosen or not
Forms == [id : 0..MaxId, tipo : BOOLEAN]

\* import documents with a list of objects
ObjectDocs ==
    {[NoDoc EXCEPT !["objects"] = Val(l)] :
        l \in {<<DocRec>>, <<DocRec, [DocRec EXCEPT !.id = 2]>>}}

\* page load with objects of distinct ids stored; no view of the objects
\* has been shown yet
InitObjects ==
    /\ InitBase
    /\ \E l \in {x \in Lists({rec \in StoredRecs : rec.st = "b"}, MaxLen) :
                    NoDup(x)} :
          ls = [r \in Keys |-> IF r = "objects" /\ l # << >> THEN Val(l)
                               ELSE Absent(r)]

\* an import (slot 1), the objects view shown at any time (slot 3), and an
\* object saved from the form in create mode (slot 2)
NextObjects ==
    \/ DBOpened
    \/ \E r \in Coll : TxCommit(r) \/ ClearRun(r) \/ GetAllRun(r)
    \/ \E d \in ObjectDocs :
          CallImport(1, [good |-> TRUE, shape |-> "object", d |-> d])
    \/ ImportNext(1)
    \/ ShowObjectsView(3)
    \/ LoadObjectsReturn(3)
    \/ ShowObjectModal
    \/ \E form \in Forms : SaveObjectForm(2, form)
    \/ SaveRecWrite(2)
    \/ ObjectsUpdatedDispatch(2, 3)

SpecObjects == InitObjects /\ [][NextObjects]_vars

\* the object modal opened in create mode and one click on its save button
\* (slots 1 and 2), the objects view shown at any time (slot 3)
NextClick ==
    \/ DBOpened
    \/ \E r \in Coll : TxCommit(r) \/ ClearRun(r) \/ GetAllRun(r)
    \/ ShowObjectsView(3)
    \/ LoadObjectsReturn(3)
    \/ ShowObjectModal
    \/ \E form \in Forms : ClickObjectSave(1, 2, form)
    \/ \E c \in {1, 2} : SaveRecWrite(c) \/ ObjectsUpdatedDispatch(c, 3)

SpecClick == InitObjects /\ [][NextClick]_vars

(* ------------------------- saving from the forms ----------------------- *)
\* the task forms the user can submit: title and deadline filled or not
TaskForms == [id : Ids, titulo : BOOLEAN, prazo : BOOLEAN]

\* page load with tasks or objects of distinct ids stored
InitForms ==
    /\ InitBase
    /\ \E r0 \in {"tasks", "objects"} :
       \E l \in {x \in Lists({rec \in StoredRecs : rec.st = "b"}, MaxLen) :
                    NoDup(x)} :
          ls = [r \in Keys |-> IF r = r0 /\ l # << >> THEN Val(l)
                               ELSE Absent(r)]

\* the views shown at any time (slots 2 and 3), a modal opened in create
\* mode and its form submitted (slot 1)
NextForms ==
    \/ DBOpened
    \/ \E r \in Coll : TxCommit(r) \/ ClearRun(r) \/ GetAllRun(r)
    \/ ShowTasksView(2)
    \/ LoadTasksReturn(2)
    \/ ShowObjectsView(3)
    \/ LoadObjectsReturn(3)
    \/ ShowTaskModal
    \/ ShowObjectModal
    \/ \E form \in TaskForms : SaveTaskForm(1, form)
    \/ \E form \in Forms : SaveObjectForm(1, form)
    \/ SaveRecWrite(1)
    \/ TasksUpdatedDispatch(1, 2)
    \/ ObjectsUpdatedDispatch(1, 3)

SpecForms == InitForms /\ [][NextForms]_vars

(* --------------------- reloads after a mutation ------------------------ *)
\* the application after its initialize: the database is open (initialize
\* awaits initializeDB) and the dashboard is shown; tasks of distinct ids
\* are stored
InitApp ==
    /\ idb = [r \in Coll |-> << >>]
    /\ db = "open"
    /\ txq = [r \in Coll |-> << >>]
    /\ calls = [c \in CallIds |-> IdleFrame]
    /\ events = << >>
    /\ file = NoDoc
    /\ quotaErr = FALSE
    /\ idbErr = FALSE
    /\ ui = [NoUi EXCEPT !.activeView = "dashboard"]
    /\ \E l \in {x \in Lists(OverlapRecs, MaxLen) : NoDup(x)} :
          ls = [r \in Keys |-> IF r = "tasks" /\ l # << >> THEN Val(l)
                               ELSE Absent(r)]

\* navigation at any time, and one mutation of the tasks (slot 1): a save
\* from the form, a delete, an import or a clear-all; the reloads of the
\* controllers run in slots 2 and 3
NextRefresh ==
    \/ \E r \in Coll : TxCommit(r) \/ ClearRun(r) \/ GetAllRun(r)
    \/ ShowTasksView(2)
    \/ LoadTasksReturn(2)
    \/ ShowObjectsView(3)
    \/ LoadObjectsReturn(3)
    \/ ShowView("settings")
    \/ ShowTaskModal
    \/ \E form \in {x \in TaskForms : x.titulo /\ x.prazo} :
          SaveTaskForm(1, form)
    \/ SaveRecWrite(1)
    \/ TasksUpdatedDispatch(1, 2)
    \/ \E id \in Ids : DeleteTask(1, id)
    \/ DeleteRecWrite(1)
    \/ TaskDeletedDispatch(1, 2)
    \/ \E d \in TaskDocs :
          ImportFile(1, [good |-> TRUE, shape |-> "object", d |-> d])
    \/ ImportNext(1)
    \/ SettingsImported(1, 2, 3)
    \/ ClearAll(1)
    \/ DataCleared(1, 2)
    \/ RefreshAllObjects(2, 3)
    \/ RefreshAllDone(3)

SpecRefresh == InitApp /\ [][NextRefresh]_vars

\* deleting tasks from the list: two delete buttons may be clicked before
\* the first dialog opens (slots 1 and 2), the deletes run in slot 3 and
\* the reload of the tasksUpdated listener in slot 2
MaxDeletes == 2
NextConfirm ==
    \/ \E r \in Coll : TxCommit(r) \/ ClearRun(r) \/ GetAllRun(r)
    \/ \E c \in {1, 2}, id \in Ids : ConfirmDeleteTask(c, id)
    \/ \E c \in {1, 2} : ShowConfirmModal(c)
    \/ ConfirmCancel
    \/ Len(events) < MaxDeletes /\ ConfirmOk(3)
    \/ DeleteRecWrite(3)
    \/ calls[2].pc \in {"idle", "done"} /\ TaskDeletedDispatch(3, 2)
    \/ LoadTasksReturn(2)

SpecConfirm == InitApp /\ [][NextConfirm]_vars

\* navigation only: any view requested at any time, also while the
\* initialize of an earlier request is awaited (tasks in slot 2, objects
\* in slot 3)
NextViews ==
    \/ \E r \in Coll : GetAllRun(r)
    \/ ShowTasksView(2)
    \/ LoadTasksReturn(2)
    \/ ShowObjectsView(3)
    \/ LoadObjectsReturn(3)
    \/ \E v \in Views : ShowView(v)
    \/ \E v \in Views : ViewInitialized(v)

SpecViews == InitApp /\ [][NextViews]_vars

\* the summary of any loaded collections: up to MaxSummary tasks of which
\* any number are concluded, some of the others without a status, and up
\* to MaxLen objects of which any number are converted
MaxSummary == 40
SummaryTasks ==
    {[i \in 1..n |-> [status |-> IF i <= c THEN "concluido"
                                 ELSE IF i = n THEN last ELSE "pendente"]] :
        n \in 0..MaxSummary, c \in 0..MaxSummary,
        last \in {"pendente", "undefined"}}
SummaryObjects ==
    {[i \in 1..n |-> [status |-> IF i <= c THEN "convertido"
                                 ELSE "pendente"]] :
        n \in 0..MaxLen, c \in 0..MaxLen}

InitSummary ==
    /\ idb = [r \in Coll |-> << >>]
    /\ db = "open"
    /\ txq = [r \in Coll |-> << >>]
    /\ calls = [c \in CallIds |-> IdleFrame]
    /\ events = << >>
    /\ file = NoDoc
    /\ quotaErr = FALSE
    /\ idbErr = FALSE
    /\ ls = [r \in Keys |-> Absent(r)]
    /\ \E tasks \in SummaryTasks, objects \in SummaryObjects :
          ui = [NoUi EXCEPT !.summary.tasks = tasks,
                            !.summary.objects = objects]

SpecSummary == InitSummary /\ [][GetDataSummary]_vars

\* typing in the search box of the tasks view
SpecDebounce == InitApp /\ [][NextDebounce]_vars

(* ======================= properties of the facade ====================== *)

\* positions of the records of s whose id is id
Positions(s, id) == {j \in 1..Len(s) : s[j].id = id}
First(S) == CHOOSE j \in S : \A i \in S : j <= i

\* slot 2 holds a finished getTaskById for the id of the task that the
\* finished saveTask of slot 1 saved
SavedThenGot ==
    /\ calls[1].op = "saveRec" /\ calls[1].pc = "done" /\ calls[1].r = "tasks"
    /\ calls[2].op = "getById" /\ calls[2].pc = "done" /\ calls[2].r = "tasks"
    /\ calls[2].id = calls[1].rec.id

\* C1 (as stated): after saveTask(T) has completed, getTaskById(T.id)
\* returns a record equal to T.
C1_Original == SavedThenGot => calls[2].found = calls[1].rec

\* C1 (amended): after saveTask(T) has completed, getTaskById(T.id) returns
\* T as JSON carries it: T without its undefined-valued properties, which
\* is T itself when it has none.
C1_RoundTrip == SavedThenGot => calls[2].found = JsonRec(calls[1].rec)

\* the save went through the indexed backend and T had an undefined field
C1_Witness ==
    SavedThenGot /\ calls[1].tx = "finished" /\ calls[1].rec.ex = "u"

\* the upsert of slot 1 has finished
UpsertDone == calls[1].op = "saveRec" /\ calls[1].pc = "done"

\* the stored collection is the loaded one with the record put at the
\* first position holding its id, or at the end when no position does
UpsertedAt(old, new, rec) ==
    LET P == Positions(old, rec.id)
    IN  IF P = {}
        THEN new = Append(old, JsonRec(rec))
        ELSE /\ Len(new) = Len(old)
             /\ new[First(P)] = JsonRec(rec)
             /\ \A j \in 1..Len(old) : j # First(P) => new[j] = old[j]

\* C2 (as stated): an upsert of an existing id replaces that record whole
\* at its position and leaves exactly one record with that id; an upsert of
\* an absent id appends; every other record is unchanged, in order.
C2_Original ==
    UpsertDone =>
       /\ UpsertedAt(calls[1].loaded, LoadNow(calls[1].r), calls[1].rec)
       /\ Cardinality(Positions(LoadNow(calls[1].r), calls[1].rec.id)) = 1

\* C2 (amended): an upsert of an existing id replaces the first record with
\* that id whole at its position and leaves as many records with that id as
\* there were (one when ids were unique); an upsert of an absent id appends;
\* every other record is unchanged, in order.
C2_Upsert ==
    UpsertDone =>
       /\ UpsertedAt(calls[1].loaded, LoadNow(calls[1].r), calls[1].rec)
       /\ Cardinality(Positions(LoadNow(calls[1].r), calls[1].rec.id))
             = IF Positions(calls[1].loaded, calls[1].rec.id) = {} THEN 1
               ELSE Cardinality(Positions(calls[1].loaded, calls[1].rec.id))

\* a record in second position was replaced by a different one
C2_Witness ==
    /\ UpsertDone
    /\ Len(calls[1].loaded) = 2
    /\ calls[1].loaded[1].id # calls[1].rec.id
    /\ calls[1].loaded[2].id = calls[1].rec.id
    /\ calls[1].loaded[2] # JsonRec(calls[1].rec)

\* the delete of slot 1 has written the collection back: it has returned,
\* or it waits for the complete event of its transaction
DeleteDone ==
    calls[1].op = "deleteRec" /\ calls[1].pc \in {"done", "sd_complete"}

RECURSIVE Without(_, _)
\* s without the records whose id is id
Without(s, id) ==
    IF Len(s) = 0 THEN s
    ELSE LET init == Without(SubSeq(s, 1, Len(s) - 1), id)
         IN  IF s[Len(s)].id = id THEN init ELSE Append(init, s[Len(s)])

\* C3 (as stated): a delete of an id in the collection removes exactly the
\* record with that id, the collection is one shorter and the other records
\* are unchanged; a delete of an id not in it changes nothing.
C3_Original ==
    DeleteDone =>
       LET old == calls[1].loaded
           new == LoadNow(calls[1].r)
       IN  /\ new = Without(old, calls[1].id)
           /\ Len(new) = IF Positions(old, calls[1].id) = {} THEN Len(old)
                         ELSE Len(old) - 1

\* C3 (amended): a delete of an id removes every record with that id (one
\* record when ids are unique): the collection is shorter by their number
\* and the other records are unchanged, in order; a delete of an id not in
\* it changes nothing.
C3_Delete ==
    DeleteDone =>
       LET old == calls[1].loaded
           new == LoadNow(calls[1].r)
       IN  /\ new = Without(old, calls[1].id)
           /\ Len(new) = Len(old) - Cardinality(Positions(old, calls[1].id))

\* one of two records was deleted, the other stayed
C3_Witness ==
    /\ calls[1].op = "deleteRec" /\ calls[1].pc = "done"
    /\ Len(calls[1].loaded) = 2
    /\ Len(LoadNow(calls[1].r)) = 1

\* saveData of a collection has resolved after going through the indexed
\* backend
SaveDataDoneViaIdb(c) ==
    calls[c].pc = "saved" /\ calls[c].r \in Coll /\ calls[c].tx # "none"

\* C5: after saveData of a collection with the indexed backend available,
\* the key-value entry holds the value and the indexed store holds exactly
\* the records of the value; for profile and settings only the key-value
\* entry is written.
C5_BothBackends ==
    \A c \in CallIds :
       SaveDataDoneViaIdb(c) =>
          /\ ls[calls[c].r] = Val(Json(calls[c].r, calls[c].data))
          /\ Len(idb[calls[c].r]) = Len(calls[c].data)
          /\ \A i \in 1..Len(calls[c].data) :
                \E j \in 1..Len(idb[calls[c].r]) :
                   idb[calls[c].r][j] = calls[c].data[i]


\* the loadData call of slot 1 has returned
LoadDone == calls[1].op = "load" /\ calls[1].pc = "done"

\* C4: loadData of a collection returns the indexed store's contents when
\* the indexed backend is available and the store is non-empty, otherwise
\* the parsed key-value entry, and the default when that entry is absent or
\* unparseable; for profile and settings the indexed backend is never
\* consulted.
C4_LoadData ==
    /\ LoadDone =>
          LET r == calls[1].r
              e == ls[r]
          IN  IF r \in Coll
              THEN calls[1].loaded =
                      IF db = "open" /\ idb[r] # << >> THEN idb[r]
                      ELSE IF e.k = "val" THEN e.v ELSE << >>
              ELSE calls[1].sv =
                      IF e.k = "val" THEN e.v
                      ELSE IF r = "profile" THEN ProfileDefault
                           ELSE SettingsDefault
    /\ \A c \in CallIds :
          calls[c].op = "load" /\ calls[c].r \in Single
             => calls[c].pc # "load_wait"

\* both backends held a collection, and they differed
C4_Witness ==
    /\ LoadDone /\ calls[1].r \in Coll /\ db = "open"
    /\ idb[calls[1].r] # << >>
    /\ ls[calls[1].r].k = "val" /\ ls[calls[1].r].v # idb[calls[1].r]

\* saveData of a collection has resolved although its write to the indexed
\* backend failed, and its write to localStorage had succeeded
IdbWriteFailed(c) ==
    /\ calls[c].op \in {"saveRec", "deleteRec"}
    /\ calls[c].pc \in {"saved", "done"}
    /\ calls[c].tx # "none"
    /\ calls[c].lsOk

Stuck(f) == f.pc = "sd_complete" /\ f.tx = "finished"

\* export in slot 1, a successful clear-all in slot 2, import of the
\* exported file in slot 3
RoundTrip ==
    /\ calls[1].op = "export"
    /\ calls[2].op = "clearAll" /\ calls[2].ok = "success"
    /\ calls[3].op = "import"

\* C8: exportData, clearAllData, then importData of the exported document
\* leave each of the five resources loading to the value it had before the
\* export.
C8_RoundTrip ==
    RoundTrip /\ (calls[3].pc = "done" \/ Stuck(calls[3]))
       => \A r \in Res : LoadNow(r) = calls[1].doc[r].v

\* C9: importData leaves every resource whose key is not in the document
\* unchanged in both backends.
C9_Frame ==
    [][\A c \in CallIds : \A r \in Res :
          (/\ calls'[c].op = "import"
           /\ calls[c].pc # "done"
           /\ calls'[c].doc[r].k = "absent")
          => /\ ls'[r] = ls[r]
             /\ r \in Coll => idb'[r] = idb[r]]_vars

\* tasks and objects were imported while a saved profile stayed
C9_Witness ==
    /\ calls[1].op = "import" /\ calls[1].pc = "done"
    /\ calls[1].doc["tasks"].k = "val" /\ calls[1].doc["objects"].k = "val"
    /\ calls[1].doc["profile"].k = "absent"
    /\ ls["profile"].k = "val"

\* importData has returned success, and no call was made since
ImportDone(c) ==
    /\ calls[c].op = "import" /\ calls[c].pc = "done" /\ calls[c].ok = "success"
    /\ \A d \in CallIds : d > c => calls[d].op = "idle"

ImportedEvents(c) ==
    {i \in 1..Len(events) :
        events[i] = [name |-> "dataImported", c |-> c]}

\* the step in which the importData call of slot c returns success: it
\* stops awaiting, dispatches dataImported for the first time, and every
\* key of the document that had a value has been written
ImportSucceeds(c) ==
    /\ calls'[c].pc = "done"
    /\ ImportedEvents(c) = {}
    /\ events' = Append(events, [name |-> "dataImported", c |-> c])
    /\ \A r \in Res :
          calls'[c].doc[r].k = "val" => ls'[r] = Val(Json(r, calls'[c].doc[r].v))

\* the step in which importData returns failure without having written
ImportRefuses(c) ==
    /\ calls'[c].pc = "done" /\ calls'[c].ok = "failure"
    /\ ls' = ls /\ idb' = idb /\ txq' = txq /\ events' = events

ClearedAll ==
    /\ calls[1].op = "clearAll" /\ calls[1].pc = "done"
    /\ calls[1].ok = "success"

\* C12: after clearAllData returns success every key-value entry of the
\* application is removed and every indexed store is empty, so that each of
\* the five resources loads as its default value.
C12_ClearAll ==
    ClearedAll =>
       /\ \A k \in Keys : ls[k].k = "absent"
       /\ \A r \in Coll : idb[r] = << >>
       /\ \A r \in Res : LoadNow(r) = getDefaultData(r)
       /\ (calls[2].op = "load" /\ calls[2].pc = "done") =>
             (IF calls[2].r \in Coll THEN calls[2].loaded ELSE calls[2].sv)
                = getDefaultData(calls[2].r)

\* generateTaskId has returned in slot 1
GenDone == calls[1].op = "genId" /\ calls[1].pc = "done"

\* the numbers carried by the ids of tasks that start with 'TSK', and 0
TaskNums(tasks) ==
    {[hi |-> 0, lo |-> 0]} \cup
    {n \in {parseInt(tasks[i].id.suf) :
               i \in {j \in 1..Len(tasks) : tasks[j].id.pre = "TSK"}} :
        ~isNaN(n)}

\* the largest of them
MaxSuffix(tasks) ==
    CHOOSE m \in TaskNums(tasks) : \A n \in TaskNums(tasks) : MathMax(m, n) = m

\* n + 1 as an integer
Succ(n) == [hi |-> n.hi, lo |-> n.lo + 1]

\* id is 'TSK' followed by the numeral of n in at least three digits
IsTaskIdOf(id, n) ==
    /\ id.pre = "TSK"
    /\ CharLen(id.suf) >= 3
    /\ \A i \in 1..Len(id.suf) : IsDigit(id.suf[i]) \/ Width(id.suf[i]) > 1
    /\ parseInt(id.suf) = n
    /\ CharLen(id.suf) > 3 => id.suf[1] # "0"

\* C13: generateTaskId returns 'TSK' followed by the largest
\* numeric suffix of the task ids that start with 'TSK' (0 if none) plus
\* one, in at least three digits; the id is the id of no task of the
\* collection; on an empty collection it is TSK001.
C13_GenerateTaskId ==
    GenDone =>
       /\ IsTaskIdOf(calls[1].gen, Succ(MaxSuffix(calls[1].loaded)))
       /\ \A i \in 1..Len(calls[1].loaded) :
             calls[1].loaded[i].id # calls[1].gen
       /\ calls[1].loaded = << >> => calls[1].gen.suf = <<"0", "0", "1">>

\* generateTaskId does so whenever the largest suffix is below 2^53
GenerateTaskIdBelow53 ==
    GenDone /\ MaxSuffix(calls[1].loaded).hi = 0 =>
       /\ IsTaskIdOf(calls[1].gen, Succ(MaxSuffix(calls[1].loaded)))
       /\ \A i \in 1..Len(calls[1].loaded) :
             calls[1].loaded[i].id # calls[1].gen
       /\ calls[1].gen.suf = <<"1", "0", "0", "0">>
             => \E i \in 1..Len(calls[1].loaded) :
                   calls[1].loaded[i].id.suf = <<"9", "9", "9">>

\* the search of slot 1 has settled
SearchDone == calls[1].op = "search" /\ calls[1].pc = "done"

\* C14: searchTasks and searchObjects with an empty query and no filters
\* return the whole stored collection, every record once, in stored order.
C14_SearchAll ==
    SearchDone /\ calls[1].query = << >> /\ calls[1].filters = NoFilters
       => /\ ~calls[1].rejected
          /\ calls[1].result = LoadNow(calls[1].r)

\* two records came back, the first of them without a title
C14_Witness ==
    /\ SearchDone /\ calls[1].query = << >> /\ calls[1].filters = NoFilters
    /\ Len(calls[1].result) = 2
    /\ Title(calls[1].r, calls[1].result[1]) = Undef
    /\ calls[1].result[1] # calls[1].result[2]

\* q occurs in s, letter case apart
OccursIn(q, s) ==
    /\ s # Undef
    /\ \E i \in 0..(Len(s) - Len(q)) :
          \A k \in 1..Len(q) : Lower(s[i + k]) = Lower(q[k])

\* the record matches the query and every filter that is given
Wanted(r, rec, query, filters) ==
    /\ \/ query = << >>
       \/ OccursIn(query, Title(r, rec))
       \/ OccursIn(query, rec.id)
       \/ OccursIn(query, Notes(r, rec))
    /\ filters.status # "" => rec.status = filters.status
    /\ r = "tasks" /\ filters.priority # "" => rec.prioridade = filters.priority
    /\ r = "tasks" /\ filters.category # "" => rec.categoria = filters.category
    /\ r = "objects" /\ filters.type # "" => rec.tipo = filters.type

RECURSIVE WantedOf(_, _, _, _)
\* the wanted records of s, in the order of s
WantedOf(r, s, query, filters) ==
    IF Len(s) = 0 THEN s
    ELSE LET init == WantedOf(r, SubSeq(s, 1, Len(s) - 1), query, filters)
         IN  IF Wanted(r, s[Len(s)], query, filters)
             THEN Append(init, s[Len(s)]) ELSE init

\* the search returned exactly the wanted records of the stored collection
SearchedRight ==
    /\ ~calls[1].rejected
    /\ calls[1].result =
          WantedOf(calls[1].r, LoadNow(calls[1].r), calls[1].query,
                   calls[1].filters)
    /\ calls[1].filters.status # "" =>
          \A i \in 1..Len(calls[1].result) :
             calls[1].result[i].status = calls[1].filters.status

\* C15: for every stored collection, every query and every set of filters,
\* a search with a status filter returns only records of that status, and a
\* search with a query and filters returns exactly the records that match
\* the query (in title/name, id or description/notes, letter case apart)
\* and every given filter.
C15_Search == SearchDone => SearchedRight

\* the search does so when every stored record has a title / name
SearchTitled ==
    (/\ SearchDone
     /\ \A i \in 1..Len(calls[1].loaded) :
           Title(calls[1].r, calls[1].loaded[i]) # Undef)
       => SearchedRight

\* the read operations of the facade
ReadOps == {"search", "getById", "summary", "export"}

\* C16: searchTasks, searchObjects, getTaskById, getObjectById,
\* getDataSummary and exportData leave both backends unchanged and dispatch
\* no event.
C16_ReadOnly ==
    [][\A c \in CallIds :
          (/\ calls'[c].op \in ReadOps
           /\ \/ calls'[c].pc # calls[c].pc
              \/ calls'[c].r # calls[c].r)
             => ls' = ls /\ idb' = idb /\ events' = events]_vars

\* an export has read all five resources from a database that is open
C16_Witness ==
    /\ calls[1].op = "export" /\ calls[1].pc = "done"
    /\ db = "open"
    /\ \E r \in Coll : ls[r].k = "val" /\ file[r] = ls[r]

\* the '<resource>Updated' events dispatched by the call of slot c
UpdatedEvents(c) ==
    {i \in 1..Len(events) :
        events[i] = [name |-> UpdatedEvent(calls[c].r), c |-> c]}

\* an upsert or a delete that has returned, or can no longer go on
Finished(c) ==
    /\ calls[c].op \in {"saveRec", "deleteRec"}
    /\ calls[c].pc = "done" \/ Stuck(calls[c])

\* C17: each upsert and each delete dispatches exactly one
\* '<resource>Updated' event, only after saveData of the whole collection
\* has completed, and its payload is the new collection, equal to what a
\* load of the resource returns at that moment.
C17_Notify ==
    \A c \in CallIds :
       /\ Finished(c) =>
             /\ Cardinality(UpdatedEvents(c)) = 1
             /\ LoadNow(calls[c].r) = calls[c].data
       /\ (calls[c].op \in {"saveRec", "deleteRec"} /\ UpdatedEvents(c) # {})
             => calls[c].pc = "done"

\* an upsert or a delete that returns has dispatched exactly one event, and
\* the payload in its JSON form is what a load returns
NotifiedOnReturn ==
    \A c \in CallIds :
       (calls[c].op \in {"saveRec", "deleteRec"} /\ calls[c].pc = "done") =>
          /\ Cardinality(UpdatedEvents(c)) = 1
          /\ LoadNow(calls[c].r) = JsonList(calls[c].data)

\* both upserts have returned; their records had different ids new to the
\* collection, and the second loaded the collection before the first had
\* written it
StaleUpserts ==
    /\ calls[1].op = "saveRec" /\ calls[1].pc = "done"
    /\ calls[2].op = "saveRec" /\ calls[2].pc = "done"
    /\ calls[1].rec.id # calls[2].rec.id
    /\ Positions(calls[1].loaded, calls[1].rec.id) = {}
    /\ Positions(calls[1].loaded, calls[2].rec.id) = {}
    /\ Positions(calls[2].loaded, calls[1].rec.id) = {}

\* C18: two upserts of records with different new ids, the second loading
\* the collection before the first has written it, leave the stored
\* collection with only one of the two records.
C18_LostUpdate ==
    StaleUpserts =>
       Cardinality({c \in {1, 2} :
          Positions(LoadNow("tasks"), calls[c].rec.id) # {}}) = 1

\* the record of the first upsert is the one that is lost
C18_Witness ==
    /\ StaleUpserts
    /\ db = "open"
    /\ Positions(LoadNow("tasks"), calls[1].rec.id) = {}
    /\ Positions(LoadNow("tasks"), calls[2].rec.id) # {}

\* the stored collection of r: the list in its localStorage entry
Stored(r) == IF ls[r].k = "val" THEN ls[r].v ELSE << >>

\* C19 (as stated): in every reachable state, after any sequence of
\* upserts, deletes, imports and clear-all, no two stored tasks share an id
\* and no two stored objects share an id.
C19_Original ==
    \A r \in {"tasks", "objects"} : NoDup(Stored(r)) /\ NoDup(idb[r])

\* no import so far carried a list with a repeated id
CleanImports ==
    \A c \in CallIds : \A r \in Coll :
       calls[c].op = "import" => NoDup(calls[c].doc[r].v)

\* C19 (amended): starting from collections without repeated ids, after
\* any sequence of upserts, deletes, clear-all and imports of documents
\* whose lists have no repeated id, no two stored tasks share an id and no
\* two stored objects share an id.
C19_UniqueIds ==
    CleanImports =>
       \A r \in {"tasks", "objects"} : NoDup(Stored(r)) /\ NoDup(idb[r])

\* an import of two tasks followed by an upsert of one of them and an
\* upsert of a new object
C19_Witness ==
    /\ CleanImports
    /\ calls[1].op = "import" /\ Len(calls[1].doc["tasks"].v) = 2
    /\ calls[2].op = "saveRec" /\ calls[2].pc = "done" /\ calls[2].r = "tasks"
    /\ calls[3].op = "saveRec" /\ calls[3].pc = "done" /\ calls[3].r = "objects"
    /\ Len(Stored("tasks")) = 2 /\ Len(Stored("objects")) = 1

\* saveObject of the controller hands a new object to the facade
CreateStarts(c) ==
    /\ calls[c].op = "idle"
    /\ calls'[c].op = "saveRec" /\ calls'[c].mode = "create"

\* C20: creating a new object never replaces a stored object: when the
\* stored objects already contain a record with the entered id, the save is
\* rejected and the stored record is unchanged, after any prior operations.
C20_CreateNeverReplaces ==
    [][\A c \in CallIds :
          CreateStarts(c) =>
             Positions(Stored("objects"), calls'[c].rec.id) = {}]_vars

\* a create is refused whenever the id is in the collection the controller
\* holds in memory
CreateChecksMemory ==
    [][\A c \in CallIds :
          CreateStarts(c) =>
             Positions(ui.currentObjects, calls'[c].rec.id) = {}]_vars

\* the full collection the controller of resource r holds in memory
InMemory(r) == IF r = "tasks" THEN ui.currentTasks ELSE ui.currentObjects

\* C21: in the Tasks controller and in the Objects controller, saving a new
\* record whose id is the id of a record of the controller's in-memory
\* collection is rejected before the upsert of the facade is called.
C21_CreateRejectsKnownId ==
    [][\A c \in CallIds :
          CreateStarts(c) =>
             Positions(InMemory(calls'[c].r), calls'[c].rec.id) = {}]_vars

\* a form with an empty required field is submitted
SubmitsInvalid ==
    /\ ui'.form # ui.form
    /\ ~(ui'.form.first /\ ui'.form.second)

\* C22: a save from a form that fails validation (task without title or
\* deadline, object without id or type) is aborted before any write:
\* neither backend changes, no facade call is started, no event is
\* dispatched and the modal stays open.
C22_InvalidAborts ==
    [][SubmitsInvalid =>
          /\ ls' = ls /\ idb' = idb /\ txq' = txq
          /\ calls' = calls /\ events' = events
          /\ ui'.modal = ui.modal /\ ui.modal # "none"
          /\ ui'.msg \in {"titleRequired", "deadlineRequired",
                           "idRequired", "typeRequired"}]_vars

\* a task form without deadline was refused with the task modal still open,
\* tasks being stored
C22_Witness ==
    /\ ui.form.ctl = "task" /\ ui.form.first /\ ~ui.form.second
    /\ ui.msg = "deadlineRequired" /\ ui.modal = "task"
    /\ calls[1].op = "idle"
    /\ Stored("tasks") # << >>

\* the mutation made in slot 1 has returned and every reload it started has
\* finished
ReloadsSettled ==
    /\ calls[1].pc = "done"
    /\ calls[1].op \in {"import", "clearAll"} => calls[1].mode = "refreshed"
    /\ \A c \in {2, 3} : calls[c].pc \in {"idle", "done"}
    /\ ui.refreshAll = "none"
    /\ \A r \in Coll : txq[r] = << >>

\* the call in slot 1 changed the stored collection r
Mutated(r) ==
    \/ calls[1].op \in {"saveRec", "deleteRec"} /\ calls[1].r = r
    \/ calls[1].op = "import" /\ calls[1].ok = "success"
          /\ calls[1].doc[r].k = "val"
    \/ calls[1].op = "clearAll" /\ calls[1].ok = "success"

\* C23: after any mutation of a collection by the facade (upsert, delete,
\* import, clear-all), once the reloads it triggered have settled, the
\* in-memory collection of the owning controller equals the collection the
\* facade loads, whichever view is shown.
C23_ControllersFollow ==
    ReloadsSettled =>
       \A r \in {"tasks", "objects"} : Mutated(r) => InMemory(r) = LoadNow(r)

\* the same for saves, deletes and clear-all only
FollowsExceptImport ==
    ReloadsSettled /\ calls[1].op # "import" =>
       \A r \in {"tasks", "objects"} : Mutated(r) => InMemory(r) = LoadNow(r)

\* no call of the facade is in flight
NoneInFlight == \A c \in CallIds : calls[c].pc \in {"idle", "done"}

\* the records of a list
Records(l) == {l[i] : i \in DOMAIN l}

\* C24: whenever no operation of the facade is in flight, for each
\* collection the object store (when the database is available) and the
\* localStorage entry hold the same set of records, after any sequence of
\* saves, deletes, imports and clear-all.
C24_BackendsAgree ==
    NoneInFlight /\ db = "open" =>
       \A r \in Coll : Records(idb[r]) = Records(Stored(r))

\* C25: every upsert, delete and import eventually completes (its saveData
\* promise settles and its notification is dispatched), for every saved
\* value including an empty collection with the database available.
C25_Completes ==
    \A c \in CallIds :
       (calls[c].op \in {"saveRec", "deleteRec", "import"})
          ~> (calls[c].pc = "done")

\* every call that saves at least one record, or saves before the database
\* is open, completes
NonEmptyCompletes ==
    \A c \in CallIds :
       (calls[c].op \in {"saveRec", "deleteRec", "import"})
          ~> (calls[c].pc = "done" \/ Stuck(calls[c]))

\* a call never settles only while saving an empty collection through an
\* open database
StuckOnlyOnEmpty ==
    \A c \in CallIds :
       Stuck(calls[c]) => calls[c].data = << >> /\ db = "open"

\* the upserts of objects started so far, and the objectsUpdated events
ObjectUpserts ==
    {c \in CallIds : calls[c].op = "saveRec" /\ calls[c].r = "objects"}
ObjectsUpdatedEvents ==
    {i \in DOMAIN events : events[i].name = "objectsUpdated"}

\* C26: one click on the save button of the object form starts exactly one
\* upsert of the facade and causes exactly one objectsUpdated event: no two
\* read-modify-write cycles on the objects start within the same UI event.
C26_OneUpsertPerClick ==
    /\ Cardinality(ObjectUpserts) <= 1
    /\ Cardinality(ObjectsUpdatedEvents) <= 1

\* C27 (as stated): for a burst of input events each less than 300 ms after
\* the previous one, applyFilters is called exactly once, 300 ms after the
\* last event of the burst, and never while the burst goes on.
C27_Original ==
    LET q == ui.search
    IN  /\ q.burstApplied <= 1
        /\ q.burstApplied = 1 => q.appliedAt = q.lastInput + Wait
        /\ ~q.missed
        /\ q.typed > 0 /\ q.now > q.lastInput + Wait => q.burstApplied = 1

\* C27 (amended): after each input event applyFilters is called at most
\* once, not before 300 ms have passed since that event (so never while
\* the burst goes on), and until it is called the timer of the last event
\* stays pending; a timer that runs late, or an event handled before a
\* timer that is due has run, moves or drops the call.
C27_Debounce ==
    LET q == ui.search
    IN  /\ q.applied <= 1
        /\ q.applied = 1 => q.appliedAt >= q.lastInput + Wait
        /\ q.typed > 0 => ((q.applied = 1) <=> (q.timeout \notin q.timers))

\* a burst of two or more events was followed by one call, 300 ms after
\* its last event
C27_Witness ==
    LET q == ui.search
    IN  /\ q.burstLen = 2 /\ q.burstApplied = 1
        /\ q.appliedAt = q.lastInput + Wait
        /\ q.typed = MaxInputs

\* a call of storage.deleteTask / deleteObject starts in slot c
DeleteStarts(c) ==
    /\ calls'[c].op = "deleteRec"
    /\ calls[c].op # "deleteRec" \/ calls[c].pc = "done"
    /\ calls'[c].pc # "done"

\* C28: a task is deleted from storage only after the user confirms the
\* dialog opened for that record: storage changes only in a delete that a
\* confirmation started, a confirmation starts at most one delete and it
\* is the delete of the record the dialog names (never that of an
\* earlier, cancelled dialog), and cancelling or closing changes nothing
\* in storage.
C28_DeleteOnlyConfirmed ==
    [][/\ \A c \in CallIds : DeleteStarts(c) =>
             /\ ui.confirm.open /\ ~ui'.confirm.open
             /\ calls'[c].id = ui.confirm.shown
             /\ ui'.confirm.callback = 0
             /\ \A d \in CallIds \ {c} : ~DeleteStarts(d)
       /\ (ls' # ls \/ idb' # idb) =>
             \E c \in CallIds : calls[c].op = "deleteRec"
       /\ (ui.confirm.open /\ ~ui'.confirm.open
             /\ ui'.confirm.cancelled # ui.confirm.cancelled) =>
             UNCHANGED <<ls, idb, txq, calls, events>>]_vars

\* a dialog was cancelled, the dialog of another task was confirmed, and
\* that task is gone from the stored collection
C28_Witness ==
    /\ ui.confirm.cancelled # 0
    /\ calls[3].op = "deleteRec" /\ calls[3].pc = "done"
    /\ calls[3].id # ui.confirm.cancelled
    /\ Find(Stored("tasks"), calls[3].id) = NotFound
    /\ Find(Stored("tasks"), ui.confirm.cancelled) # NotFound

\* every started showView has finished
ShowViewsFinished ==
    /\ ui.initializing = {}
    /\ \A c \in CallIds : calls[c].pc \in {"idle", "done"}

\* C29: once all started showView calls have finished, app.currentView
\* names the view that is displayed, also when a second showView was
\* started while the first was awaiting its controller's initialize.
C29_CurrentViewIsShown ==
    ShowViewsFinished => ui.currentView = ui.activeView

\* C30: getDataSummary returns totalTasks = activeTasks + completedTasks
\* with completedTasks the number of tasks of status 'concluido',
\* convertedObjects <= totalObjects, and progressPercentage =
\* round(100 * completedTasks / totalTasks), 0 without tasks and always an
\* integer in 0..100.
C30_Summary ==
    LET q == ui.summary
        o == q.out
    IN  q.done =>
          /\ o.totalTasks = o.activeTasks + o.completedTasks
          /\ o.totalTasks = Len(q.tasks)
          /\ o.completedTasks = Count(q.tasks, "concluido")
          /\ o.convertedObjects <= o.totalObjects
          /\ o.progressPercentage \in 0..100
          /\ o.totalTasks = 0 => o.progressPercentage = 0
          /\ o.totalTasks > 0 =>
                o.progressPercentage =
                   Percentage_Exact(o.completedTasks, o.totalTasks)

\* the counts are right, and the percentage is the rounded quotient
\* except that a quotient ending in one half may be rounded down
SummaryCounts ==
    LET q == ui.summary
        o == q.out
    IN  q.done =>
          /\ o.totalTasks = o.activeTasks + o.completedTasks
          /\ o.totalTasks = Len(q.tasks)
          /\ o.completedTasks = Count(q.tasks, "concluido")
          /\ o.convertedObjects <= o.totalObjects
          /\ o.progressPercentage \in 0..100
          /\ o.totalTasks = 0 => o.progressPercentage = 0
          /\ o.totalTasks > 0 =>
                LET exact == Percentage_Exact(o.completedTasks, o.totalTasks)
                    half  == (200 * o.completedTasks) % (2 * o.totalTasks)
                                = o.totalTasks
                IN  \/ o.progressPercentage = exact
                    \/ half /\ o.progressPercentage = exact - 1

====
